---- MODULE Spec2Model ----
(***************************************************************************)
(* ai-news-agent: the two TTL caches (article search, LLM enrichment),     *)
(* the cache-key functions, the NewsAPI gateway, the four enrichment       *)
(* operations, the preference-to-query transformation, the scoring and     *)
(* ranking engine, the two API handlers and concurrent cached calls.       *)
(*                                                                         *)
(* Text is a sequence of one-character strings, so that concatenation,     *)
(* joining and str() are computed character by character.                  *)
(***************************************************************************)
EXTENDS Integers, Sequences, FiniteSets, TLC

VARIABLES
    now,                 \* the cache timer (time.monotonic), in seconds
    ticks,               \* how many times the clock has advanced
    news_api_cache,      \* newsapi_client.news_api_cache, entries in LRU order
    llm_analysis_cache,  \* llm_analyzer.llm_analysis_cache, entries in LRU order
    reqs,                \* the request shapes arriving in this run
    last,                \* the most recent completed call and what it did
    issued,              \* how many distinct arguments the filling client has used
    recency,             \* history: the keys called so far, least recently called first
    pin,                 \* the input of a pure function under check
    pout,                \* what the pure function returned for it
    settings,            \* configuration.config.settings: which API keys are set
    user_preferences_db, \* api.main.user_preferences_db, items in insertion order
    response,            \* the most recent API response and what producing it did
    callers              \* the threads inside a cached call, and where each one is

vars == <<now, ticks, news_api_cache, llm_analysis_cache, reqs, last,
          issued, recency, pin, pout,
          settings, user_preferences_db, response, callers>>

----------------------------------------------------------------------------
(* Bounds of the model *)

MaxTicks == 1
MaxExtra == 2
MaxSlack == 1
MaxArticles == 3

----------------------------------------------------------------------------
(* Python values: None, int, str, list *)

PyNone == [t |-> "none", v |-> <<>>]
PyInt(n) == [t |-> "int", v |-> n]
PyStr(s) == [t |-> "str", v |-> s]
PyList(l) == [t |-> "list", v |-> l]

\* Python truthiness: `if v`
Truthy(x) ==
    CASE x.t = "none" -> FALSE
      [] x.t = "int" -> x.v # 0
      [] OTHER -> Len(x.v) > 0

Min(a, b) == IF a < b THEN a ELSE b

\* str(n) for an int: decimal digits, "-" in front of a negative number
DigitChar(d) ==
    CASE d = 0 -> "0" [] d = 1 -> "1" [] d = 2 -> "2" [] d = 3 -> "3"
      [] d = 4 -> "4" [] d = 5 -> "5" [] d = 6 -> "6" [] d = 7 -> "7"
      [] d = 8 -> "8" [] OTHER -> "9"

RECURSIVE NatToStr(_)
NatToStr(n) ==
    IF n < 10 THEN <<DigitChar(n)>>
    ELSE NatToStr(n \div 10) \o <<DigitChar(n % 10)>>

IntToStr(n) == IF n < 0 THEN <<"-">> \o NatToStr(0 - n) ELSE NatToStr(n)

\* int(x) for an int or for a str of decimal digits
DigitValue(c) == CHOOSE d \in 0..9 : DigitChar(d) = c

RECURSIVE StrToNat(_)
StrToNat(chars) ==
    IF Len(chars) = 0 THEN 0
    ELSE 10 * StrToNat(SubSeq(chars, 1, Len(chars) - 1)) + DigitValue(chars[Len(chars)])

PyToInt(x) == IF x.t = "int" THEN x.v ELSE StrToNat(x.v)

\* sep.join(parts) over texts
RECURSIVE Join(_, _)
Join(sep, parts) ==
    IF Len(parts) = 0 THEN <<>>
    ELSE IF Len(parts) = 1 THEN parts[1]
    ELSE parts[1] \o sep \o Join(sep, Tail(parts))

----------------------------------------------------------------------------
(* Python dicts: a sequence of <<key, value>> pairs in insertion order,    *)
(* keys distinct.                                                          *)

DictKeys(d) == {d[i][1] : i \in 1..Len(d)}

HasKey(d, k) == k \in DictKeys(d)

\* d.get(k, default)
DictGet(d, k, default) ==
    IF HasKey(d, k)
    THEN d[CHOOSE i \in 1..Len(d) : d[i][1] = k][2]
    ELSE default

\* code points order the key names the way Python compares str
KeyRank(k) ==
    CASE k = "excludeDomains" -> 1
      [] k = "from" -> 2
      [] k = "language" -> 3
      [] k = "pageSize" -> 4
      [] k = "q" -> 5
      [] k = "sortBy" -> 6
      [] OTHER -> 7   \* "sources"

\* sorted(d.items()) by key, as json.dumps(sort_keys=True) emits them
RECURSIVE InsertSorted(_, _)
InsertSorted(pair, sorted) ==
    IF Len(sorted) = 0 THEN <<pair>>
    ELSE IF KeyRank(pair[1]) < KeyRank(sorted[1][1]) THEN <<pair>> \o sorted
    ELSE <<sorted[1]>> \o InsertSorted(pair, Tail(sorted))

RECURSIVE SortItems(_)
SortItems(d) ==
    IF Len(d) = 0 THEN <<>>
    ELSE InsertSorted(d[1], SortItems(Tail(d)))

\* json.dumps of the characters of a str: a double quote and a backslash
\* are written behind a backslash
RECURSIVE JsonEscape(_)
JsonEscape(chars) ==
    IF Len(chars) = 0 THEN <<>>
    ELSE (IF chars[1] \in {"\"", "\\"} THEN <<"\\", chars[1]>> ELSE <<chars[1]>>)
         \o JsonEscape(Tail(chars))

\* json.dumps of a value: an int as its digits, a str between double quotes
JsonValue(x) ==
    IF x.t = "int" THEN IntToStr(x.v)
    ELSE <<"\"">> \o JsonEscape(x.v) \o <<"\"">>

JsonItem(pair) == <<"\"", pair[1], "\"", ":", " ">> \o JsonValue(pair[2])

RECURSIVE JsonItems(_)
JsonItems(items) ==
    IF Len(items) = 0 THEN <<>>
    ELSE IF Len(items) = 1 THEN JsonItem(items[1])
    ELSE JsonItem(items[1]) \o <<",", " ">> \o JsonItems(Tail(items))

\* json.dumps(d) without sort_keys: items in insertion order
make_cache_key_unsorted(query_params) == <<"{">> \o JsonItems(query_params) \o <<"}">>

\* newsapi_client.make_cache_key: json.dumps(query_params, sort_keys=True)
make_cache_key(query_params) == <<"{">> \o JsonItems(SortItems(query_params)) \o <<"}">>

----------------------------------------------------------------------------
(* cachetools.TTLCache as the two module-level caches use it.  A cache is  *)
(* the sequence of its entries [key, value, expires] from the least to the *)
(* most recently used.                                                     *)

NewsCacheMaxSize == 100
NewsCacheTtl == 600
LlmCacheMaxSize == 500
LlmCacheTtl == 3600

IndexOf(cache, key) ==
    IF \E i \in 1..Len(cache) : cache[i].key = key
    THEN CHOOSE i \in 1..Len(cache) : cache[i].key = key
    ELSE 0

RemoveAt(cache, i) == SubSeq(cache, 1, i - 1) \o SubSeq(cache, i + 1, Len(cache))

\* (mutant) an entry that outlives its expiry time by one reading
IsExpired_late(e, time) == time > e.expires

\* an entry is dead once the timer has reached its expiry time
IsExpired(e, time) == ~(time < e.expires)

\* TTLCache.expire(time): drop every entry whose time-to-live is over
Expire(cache, time) == SelectSeq(cache, LAMBDA e : ~IsExpired(e, time))

\* a lookup that leaves the order of use alone
TTLCache_getitem_unmoved(cache, key, time) ==
    LET i == IndexOf(cache, key) IN
    IF i = 0
    THEN [found |-> FALSE, stale |-> FALSE, value |-> PyNone, cache |-> cache]
    ELSE IF IsExpired(cache[i], time)
         THEN [found |-> FALSE, stale |-> TRUE, value |-> PyNone, cache |-> cache]
         ELSE [found |-> TRUE, stale |-> FALSE, value |-> cache[i].value,
               cache |-> cache]

\* TTLCache.__getitem__: the entry becomes the most recently used, then its
\* expiry decides between the value and KeyError
TTLCache_getitem(cache, key, time) ==
    LET i == IndexOf(cache, key) IN
    IF i = 0
    THEN [found |-> FALSE, stale |-> FALSE, value |-> PyNone, cache |-> cache]
    ELSE LET e == cache[i]
             moved == RemoveAt(cache, i) \o <<e>>
         IN IF IsExpired(e, time)
            THEN [found |-> FALSE, stale |-> TRUE, value |-> PyNone, cache |-> moved]
            ELSE [found |-> TRUE, stale |-> FALSE, value |-> e.value, cache |-> moved]

\* Cache.__setitem__'s loop: popitem() the least recently used entry while
\* one more entry does not fit
RECURSIVE EvictWhileFull(_, _)
EvictWhileFull(cache, maxsize) ==
    IF Len(cache) > 0 /\ Len(cache) + 1 > maxsize
    THEN EvictWhileFull(Tail(cache), maxsize)
    ELSE cache

\* TTLCache.__setitem__: expire, make room unless the key is already
\* stored, store, and make the entry the most recently used with a fresh
\* expiry time.  `by` is history, read by no operation: the call whose
\* execution produced the value.
TTLCache_setitem(cache, key, value, time, maxsize, ttl, by) ==
    LET live == Expire(cache, time)
        i == IndexOf(live, key)
        room == IF i # 0 THEN RemoveAt(live, i) ELSE EvictWhileFull(live, maxsize)
    IN room \o <<[key |-> key, value |-> value, expires |-> time + ttl, by |-> by]>>

\* a wrapper that stores no None
cached_skip_none(cache, key, time, maxsize, ttl, computed, by) ==
    LET g == TTLCache_getitem(cache, key, time) IN
    IF g.found
    THEN [hit |-> TRUE, stale |-> FALSE, value |-> g.value, cache |-> g.cache]
    ELSE [hit |-> FALSE, stale |-> g.stale, value |-> computed,
          cache |-> IF computed = PyNone THEN g.cache
                    ELSE TTLCache_setitem(g.cache, key, computed, time, maxsize,
                                          ttl, by)]

\* cachetools.cached without a lock: return cache[k], or on KeyError call
\* the function and store what it returned (None included).  `computed` is
\* what the wrapped function returns when it is called.
cached(cache, key, time, maxsize, ttl, computed, by) ==
    LET g == TTLCache_getitem(cache, key, time) IN
    IF g.found
    THEN [hit |-> TRUE, stale |-> FALSE, value |-> g.value, cache |-> g.cache]
    ELSE [hit |-> FALSE, stale |-> g.stale, value |-> computed,
          cache |-> TTLCache_setitem(g.cache, key, computed, time, maxsize, ttl, by)]

----------------------------------------------------------------------------
(* fetchers/newsapi_client.py *)

DefaultPageSize == 20
MaxPageSize == 100

TxtEn == <<"e", "n">>
TxtPublishedAt == <<"p", "u", "b", "l", "i", "s", "h", "e", "d", "A", "t">>

\* the defaults without min(..., 100)
params_defaults_unclamped(query_params) ==
    << <<"q", DictGet(query_params, "q", PyStr(<<>>))>>,
       <<"sources", DictGet(query_params, "sources", PyStr(<<>>))>>,
       <<"excludeDomains", DictGet(query_params, "excludeDomains", PyStr(<<>>))>>,
       <<"language", DictGet(query_params, "language", PyStr(TxtEn))>>,
       <<"pageSize",
         PyInt(PyToInt(DictGet(query_params, "pageSize", PyInt(DefaultPageSize))))>>,
       <<"sortBy", DictGet(query_params, "sortBy", PyStr(TxtPublishedAt))>>,
       <<"from", DictGet(query_params, "from", PyStr(<<>>))>> >>

\* lines 50-58: the caller's value or the default for each of the seven
\* parameters.  int() raises for a pageSize that is no number, before
\* anything is sent; the callers of this repository pass the int 20.
params_defaults(query_params) ==
    << <<"q", DictGet(query_params, "q", PyStr(<<>>))>>,
       <<"sources", DictGet(query_params, "sources", PyStr(<<>>))>>,
       <<"excludeDomains", DictGet(query_params, "excludeDomains", PyStr(<<>>))>>,
       <<"language", DictGet(query_params, "language", PyStr(TxtEn))>>,
       <<"pageSize",
         PyInt(Min(PyToInt(DictGet(query_params, "pageSize",
                                   PyInt(DefaultPageSize))),
                   MaxPageSize))>>,
       <<"sortBy", DictGet(query_params, "sortBy", PyStr(TxtPublishedAt))>>,
       <<"from", DictGet(query_params, "from", PyStr(<<>>))>> >>

\* line 60: {k: v for k, v in params_to_use.items() if v}
params_to_use(query_params) ==
    SelectSeq(params_defaults(query_params), LAMBDA pair : Truthy(pair[2]))

\* What one requests.get can end in: a 2xx answer whose body has status "ok"
\* (with or without an "articles" member), a 2xx answer with another status,
\* a non-2xx answer (raise_for_status), a connection error, a timeout, or a
\* body that is no JSON.
FailureKinds == {"api_error", "http_error", "connection_error", "timeout", "bad_json"}

ArticleLists == {<<"art2", "art1">>}

NewsOutcomes ==
    {[kind |-> "ok", has_articles |-> TRUE, articles |-> l] : l \in ArticleLists}
    \cup {[kind |-> "ok", has_articles |-> FALSE, articles |-> <<>>]}
    \cup {[kind |-> k, has_articles |-> FALSE, articles |-> <<>>] : k \in FailureKinds}

\* a body that answers a failure with an empty list
fetch_articles_result_empty(outcome) ==
    IF outcome.kind = "ok" /\ outcome.has_articles
    THEN PyList(outcome.articles) ELSE PyList(<<>>)

\* lines 64-88: what the body of fetch_articles returns for an outcome
fetch_articles_result(outcome) ==
    IF outcome.kind = "ok"
    THEN IF outcome.has_articles THEN PyList(outcome.articles) ELSE PyList(<<>>)
    ELSE PyNone

\* a key computed from the parameters that are sent
fetch_articles_key_normalized(query_params) ==
    make_cache_key(params_to_use(query_params))

\* line 36: the decorator's key is computed from the caller's mapping
fetch_articles_key(query_params) == make_cache_key(query_params)

----------------------------------------------------------------------------
(* Characters: their code point order, str.lower, str.strip, str.split *)

CharOrder ==
    <<" ", ",", "-", "0", "1", "2", "3", "4", "5", "6", "7", "8", "9",
      "A", "B", "C", "D", "E", "F", "G", "H", "I", "J", "K", "L", "M",
      "N", "O", "P", "Q", "R", "S", "T", "U", "V", "W", "X", "Y", "Z",
      "a", "b", "c", "d", "e", "f", "g", "h", "i", "j", "k", "l", "m",
      "n", "o", "p", "q", "r", "s", "t", "u", "v", "w", "x", "y", "z">>

CharCode(c) == CHOOSE i \in 1..Len(CharOrder) : CharOrder[i] = c

LowerChar(c) ==
    LET i == CharCode(c) IN
    IF i >= CharCode("A") /\ i <= CharCode("Z") THEN CharOrder[i + 26] ELSE c

\* str.lower()
Lower(s) == [i \in 1..Len(s) |-> LowerChar(s[i])]

\* s < t as Python compares str
RECURSIVE StrLess(_, _)
StrLess(s, t) ==
    IF Len(t) = 0 THEN FALSE
    ELSE IF Len(s) = 0 THEN TRUE
    ELSE IF s[1] = t[1] THEN StrLess(Tail(s), Tail(t))
    ELSE CharCode(s[1]) < CharCode(t[1])

RECURSIVE InsertStr(_, _)
InsertStr(s, sorted) ==
    IF Len(sorted) = 0 THEN <<s>>
    ELSE IF StrLess(s, sorted[1]) THEN <<s>> \o sorted
    ELSE <<sorted[1]>> \o InsertStr(s, Tail(sorted))

\* sorted(list of str)
RECURSIVE SortedStrs(_)
SortedStrs(l) == IF Len(l) = 0 THEN <<>> ELSE InsertStr(l[1], SortedStrs(Tail(l)))

RECURSIVE LStrip(_)
LStrip(s) == IF Len(s) > 0 /\ s[1] = " " THEN LStrip(Tail(s)) ELSE s

RECURSIVE RStrip(_)
RStrip(s) ==
    IF Len(s) > 0 /\ s[Len(s)] = " " THEN RStrip(SubSeq(s, 1, Len(s) - 1)) ELSE s

\* str.strip()
Strip(s) == RStrip(LStrip(s))

\* s.split(sep) for a one-character separator: always at least one part
RECURSIVE Split(_, _)
Split(s, sep) ==
    IF \E i \in 1..Len(s) : s[i] = sep
    THEN LET i == CHOOSE j \in 1..Len(s) : s[j] = sep /\ \A k \in 1..(j - 1) : s[k] # sep
         IN <<SubSeq(s, 1, i - 1)>> \o Split(SubSeq(s, i + 1, Len(s)), sep)
    ELSE <<s>>

----------------------------------------------------------------------------
(* analysis/llm_analyzer.py *)

\* hashlib.sha256(text).hexdigest(), taken collision-free: the digest stands
\* for the text it was computed from
sha256_hexdigest(text) == <<"sha256(">> \o text \o <<")">>

\* a key without the operation's name
generate_cache_key_unnamed(func_name, text) == sha256_hexdigest(text)

\* lines 15-18: f"{func_name}:{text_hash}"
generate_cache_key(func_name, text) == <<func_name, ":">> \o sha256_hexdigest(text)

DefaultNumKeywords == 5
DefaultMaxLength == 100

TxtTechnology == <<"t", "e", "c", "h", "n", "o", "l", "o", "g", "y">>
TxtBusiness == <<"b", "u", "s", "i", "n", "e", "s", "s">>
TxtSports == <<"s", "p", "o", "r", "t", "s">>
TxtEntertainment == <<"e", "n", "t", "e", "r", "t", "a", "i", "n", "m", "e", "n", "t">>
TxtHealth == <<"h", "e", "a", "l", "t", "h">>
TxtScience == <<"s", "c", "i", "e", "n", "c", "e">>
TxtWorld == <<"w", "o", "r", "l", "d">>
TxtPositive == <<"p", "o", "s", "i", "t", "i", "v", "e">>
TxtNegative == <<"n", "e", "g", "a", "t", "i", "v", "e">>
TxtNeutral == <<"n", "e", "u", "t", "r", "a", "l">>

\* the default of categorize_article's `categories`
DefaultCategories ==
    <<TxtTechnology, TxtBusiness, TxtSports, TxtEntertainment, TxtHealth,
      TxtScience, TxtWorld>>

\* the key lambdas of the four @cached decorators (lines 79, 96, 110, 126)
extract_keywords_key(text, num_keywords) ==
    generate_cache_key("extract_keywords", text \o IntToStr(num_keywords))

generate_summary_key(text, max_length) ==
    generate_cache_key("generate_summary", text \o IntToStr(max_length))

analyze_sentiment_key(text) == generate_cache_key("analyze_sentiment", text)

categorize_article_key(text, categories) ==
    generate_cache_key("categorize_article", text \o Join(<<>>, SortedStrs(categories)))

\* What one chat.completions.create can end in: a first choice with text
\* content, an answer without choices, an OpenAIError, another exception.
LlmFailureKinds == {"no_choices", "openai_error", "other_error"}

\* _make_llm_call (lines 44-77) with an initialised client
make_llm_call(outcome) ==
    IF outcome.kind = "text" THEN PyStr(Strip(outcome.content)) ELSE PyNone

\* the items without the filter on empty ones
keyword_items_unfiltered(result) ==
    LET parts == Split(result, ",") IN [i \in 1..Len(parts) |-> Strip(parts[i])]

\* [kw.strip() for kw in result.split(',') if kw.strip()]
keyword_items(result) ==
    LET parts == Split(result, ",")
        stripped == [i \in 1..Len(parts) |-> Strip(parts[i])]
    IN SelectSeq(stripped, LAMBDA kw : Len(kw) > 0)

\* lines 80-94
extract_keywords(client_ok, outcome) ==
    IF ~client_ok THEN PyNone
    ELSE LET result == make_llm_call(outcome) IN
         IF Truthy(result) THEN PyList(keyword_items(result.v)) ELSE PyList(<<>>)

\* lines 97-108
generate_summary(client_ok, outcome) ==
    IF ~client_ok THEN PyNone ELSE make_llm_call(outcome)

\* a sentiment that falls back to neutral
analyze_sentiment_default(client_ok, outcome) ==
    IF ~client_ok THEN PyNone
    ELSE LET sentiment == make_llm_call(outcome) IN
         IF Truthy(sentiment)
            /\ Lower(sentiment.v) \in {TxtPositive, TxtNegative, TxtNeutral}
         THEN PyStr(Lower(sentiment.v))
         ELSE PyStr(TxtNeutral)

\* lines 111-124
analyze_sentiment(client_ok, outcome) ==
    IF ~client_ok THEN PyNone
    ELSE LET sentiment == make_llm_call(outcome) IN
         IF Truthy(sentiment)
            /\ Lower(sentiment.v) \in {TxtPositive, TxtNegative, TxtNeutral}
         THEN PyStr(Lower(sentiment.v))
         ELSE PyNone

\* a category accepted when the response merely begins with it
categorize_article_fuzzy(client_ok, categories, outcome) ==
    IF ~client_ok THEN PyNone
    ELSE LET category == make_llm_call(outcome) IN
         IF Truthy(category)
            /\ \E i \in 1..Len(categories) :
                  /\ Len(categories[i]) <= Len(category.v)
                  /\ SubSeq(Lower(category.v), 1, Len(categories[i]))
                        = Lower(categories[i])
         THEN PyStr(Lower(category.v))
         ELSE PyNone

\* lines 127-141
categorize_article(client_ok, categories, outcome) ==
    IF ~client_ok THEN PyNone
    ELSE LET category == make_llm_call(outcome) IN
         IF Truthy(category)
            /\ \E i \in 1..Len(categories) : Lower(category.v) = Lower(categories[i])
         THEN PyStr(Lower(category.v))
         ELSE PyNone

----------------------------------------------------------------------------
(* The calls that arrive.  A request names the cached method and its       *)
(* arguments; `client_ok` is whether the analyzer instance it is made on   *)
(* has an initialised client (LlmAnalyzer.__init__, lines 27-42).          *)

NewsRequest(params) ==
    [op |-> "fetch_articles", params |-> params, text |-> <<>>, num |-> 0,
     categories |-> <<>>, client_ok |-> TRUE]

LlmRequest(op, text, num, categories, client_ok) ==
    [op |-> op, params |-> <<>>, text |-> text, num |-> num,
     categories |-> categories, client_ok |-> client_ok]

NoRequest ==
    [op |-> "none", params |-> <<>>, text |-> <<>>, num |-> 0,
     categories |-> <<>>, client_ok |-> TRUE]

TxtAi == <<"a", "i">>
TxtMl == <<"m", "l">>
TxtBbc == <<"b", "b", "c">>

NewsRequests ==
    << NewsRequest(<< <<"q", PyStr(TxtAi)>>, <<"language", PyStr(TxtEn)>> >>),
       NewsRequest(<< <<"language", PyStr(TxtEn)>>, <<"q", PyStr(TxtAi)>> >>),
       NewsRequest(<< <<"q", PyStr(TxtAi)>> >>),
       NewsRequest(<< <<"q", PyStr(TxtMl)>>, <<"pageSize", PyInt(200)>> >>),
       NewsRequest(<< <<"q", PyStr(<<>>)>>, <<"pageSize", PyInt(0)>>,
                      <<"sources", PyStr(TxtBbc)>> >>),
       NewsRequest(<< <<"q", PyStr(TxtMl)>>, <<"pageSize", PyStr(<<"5", "0">>)>> >>) >>

LlmRequests ==
    << LlmRequest("extract_keywords", <<"a", "1">>, DefaultNumKeywords, <<>>, TRUE),
       LlmRequest("extract_keywords", <<"a">>, 15, <<>>, TRUE),
       LlmRequest("extract_keywords", <<"a">>, DefaultNumKeywords, <<>>, TRUE),
       LlmRequest("generate_summary", <<"a">>, 5, <<>>, TRUE),
       LlmRequest("generate_summary", <<"a", "1">>, 0, <<>>, TRUE),
       LlmRequest("generate_summary", <<"a">>, 10, <<>>, TRUE),
       LlmRequest("analyze_sentiment", <<"a">>, 0, <<>>, TRUE),
       LlmRequest("analyze_sentiment", <<"a", "1">>, 0, <<>>, TRUE),
       LlmRequest("analyze_sentiment", <<"a">>, 0, <<>>, FALSE),
       LlmRequest("categorize_article", <<"a">>, 0, DefaultCategories, TRUE),
       LlmRequest("categorize_article", <<"a">>, 0, <<TxtWorld, TxtAi>>, TRUE),
       LlmRequest("categorize_article", <<"a", "a">>, 0, <<TxtWorld, <<"i">>>>, TRUE) >>

\* a run sees two request shapes at one of the two call sites
OrderedPairs(n) == {p \in (1..n) \X (1..n) : p[1] <= p[2]}

RequestPairs ==
    {<<NewsRequests[p[1]], NewsRequests[p[2]]>> : p \in OrderedPairs(Len(NewsRequests))}
    \cup {<<LlmRequests[p[1]], LlmRequests[p[2]]>> : p \in OrderedPairs(Len(LlmRequests))}

LlmOutcomes ==
    {[kind |-> "text", content |-> c] :
        c \in {<<" ", "P", "o", "s", "i", "t", "i", "v", "e", " ">>,
               <<"W", "o", "r", "l", "d">>}}
    \cup {[kind |-> k, content |-> <<>>] : k \in {"openai_error"}}

IsNews(r) == r.op = "fetch_articles"
IsLlm(r) == r.op \in {"extract_keywords", "generate_summary", "analyze_sentiment",
                      "categorize_article"}

\* the cache a request goes through
SiteCache(r) == IF IsNews(r) THEN news_api_cache ELSE llm_analysis_cache

\* a key that also tells the instances with a client from those without
RequestKey_per_instance(r) ==
    (IF r.client_ok THEN <<>> ELSE <<"-">>) \o
    (CASE r.op = "fetch_articles" -> fetch_articles_key(r.params)
       [] r.op = "extract_keywords" -> extract_keywords_key(r.text, r.num)
       [] r.op = "generate_summary" -> generate_summary_key(r.text, r.num)
       [] r.op = "analyze_sentiment" -> analyze_sentiment_key(r.text)
       [] OTHER -> categorize_article_key(r.text, r.categories))

\* the cache key the decorator computes for a request
RequestKey(r) ==
    CASE r.op = "fetch_articles" -> fetch_articles_key(r.params)
      [] r.op = "extract_keywords" -> extract_keywords_key(r.text, r.num)
      [] r.op = "generate_summary" -> generate_summary_key(r.text, r.num)
      [] r.op = "analyze_sentiment" -> analyze_sentiment_key(r.text)
      [] OTHER -> categorize_article_key(r.text, r.categories)

\* what the wrapped method returns for a request when it runs
LlmResult(r, outcome) ==
    CASE r.op = "extract_keywords" -> extract_keywords(r.client_ok, outcome)
      [] r.op = "generate_summary" -> generate_summary(r.client_ok, outcome)
      [] r.op = "analyze_sentiment" -> analyze_sentiment(r.client_ok, outcome)
      [] OTHER -> categorize_article(r.client_ok, r.categories, outcome)

\* the clock advances by a time-to-live or by one second less, so that a
\* run sees both sides of the expiry of the cache it uses
TickSteps(r) ==
    IF r.op = "fetch_articles"
    THEN {NewsCacheTtl - 1, NewsCacheTtl}
    ELSE {LlmCacheTtl - 1, LlmCacheTtl}

\* both API keys set in the environment
DefaultSettings == [NEWSAPI_KEY |-> TRUE, OPENAI_API_KEY |-> TRUE]

\* no API request answered yet
NoResponse ==
    [op |-> "none", user_id |-> "", served |-> 0, status_code |-> 0,
     preferences |-> [language |-> <<>>, preferred_categories |-> <<>>,
                      keywords |-> <<>>, sources |-> <<>>,
                      excluded_sources |-> <<>>],
     recommendations |-> <<>>,
     fetch_calls |-> 0, fetch_contacts |-> 0, fetch_hit |-> FALSE,
     fetched |-> PyNone, received |-> PyNone,
     enrich_calls |-> 0, llm_contacts |-> 0,
     rank_calls |-> 0, articles_to_rank |-> <<>>]

NoCall ==
    [req |-> NoRequest, hit |-> FALSE, stale |-> FALSE, result |-> PyNone,
     contacts |-> 0, sent |-> <<>>, outcome |-> "none"]

Init ==
    /\ now = 0
    /\ ticks = 0
    /\ news_api_cache = <<>>
    /\ llm_analysis_cache = <<>>
    /\ reqs \in RequestPairs
    /\ last = NoCall
    /\ issued = 0
    /\ recency = <<>>
    /\ pin = <<>>
    /\ pout = <<>>
    /\ settings = DefaultSettings
    /\ user_preferences_db = <<>>
    /\ response = NoResponse
    /\ callers = <<>>

\* time passes
Tick ==
    /\ ticks < MaxTicks
    /\ \E d \in TickSteps(reqs[1]) : now' = now + d
    /\ ticks' = ticks + 1
    /\ UNCHANGED <<news_api_cache, llm_analysis_cache, reqs, last,
                   issued, recency, pin, pout,
                   settings, user_preferences_db, response, callers>>

\* NewsApiClient.fetch_articles through its @cached decorator, the request
\* ending in one of `outcomes` when it is made
fetch_articles(r, outcomes) ==
    /\ r.op = "fetch_articles"
    /\ \E outcome \in outcomes :
         LET c == cached(news_api_cache, fetch_articles_key(r.params), now,
                         NewsCacheMaxSize, NewsCacheTtl,
                         fetch_articles_result(outcome), r)
         IN /\ news_api_cache' = c.cache
            /\ last' = [req |-> r, hit |-> c.hit, stale |-> c.stale,
                        result |-> c.value,
                        contacts |-> IF c.hit THEN 0 ELSE 1,
                        sent |-> IF c.hit THEN <<>> ELSE params_to_use(r.params),
                        outcome |-> IF c.hit THEN "none" ELSE outcome.kind]
    /\ UNCHANGED <<now, ticks, llm_analysis_cache>>

\* one of the four LlmAnalyzer methods through its @cached decorator
llm_call(r, outcomes) ==
    /\ \E outcome \in outcomes :
        LET c == cached(llm_analysis_cache, RequestKey(r), now,
                        LlmCacheMaxSize, LlmCacheTtl, LlmResult(r, outcome), r)
            called == ~c.hit /\ r.client_ok
        IN /\ llm_analysis_cache' = c.cache
           /\ last' = [req |-> r, hit |-> c.hit, stale |-> c.stale,
                       result |-> c.value,
                       contacts |-> IF called THEN 1 ELSE 0,
                       sent |-> <<>>,
                       outcome |-> IF called THEN outcome.kind ELSE "none"]
    /\ UNCHANGED <<now, ticks, news_api_cache>>

FetchArticles(r) ==
    /\ fetch_articles(r, NewsOutcomes)
    /\ UNCHANGED <<reqs, issued, recency, pin, pout,
                   settings, user_preferences_db, response, callers>>

ExtractKeywords(r) ==
    /\ r.op = "extract_keywords"
    /\ llm_call(r, LlmOutcomes)
    /\ UNCHANGED <<reqs, issued, recency, pin, pout,
                   settings, user_preferences_db, response, callers>>

GenerateSummary(r) ==
    /\ r.op = "generate_summary"
    /\ llm_call(r, LlmOutcomes)
    /\ UNCHANGED <<reqs, issued, recency, pin, pout,
                   settings, user_preferences_db, response, callers>>

AnalyzeSentiment(r) ==
    /\ r.op = "analyze_sentiment"
    /\ llm_call(r, LlmOutcomes)
    /\ UNCHANGED <<reqs, issued, recency, pin, pout,
                   settings, user_preferences_db, response, callers>>

CategorizeArticle(r) ==
    /\ r.op = "categorize_article"
    /\ llm_call(r, LlmOutcomes)
    /\ UNCHANGED <<reqs, issued, recency, pin, pout,
                   settings, user_preferences_db, response, callers>>

Next ==
    \/ Tick
    \/ \E i \in 1..2 : FetchArticles(reqs[i])
    \/ \E i \in 1..2 : ExtractKeywords(reqs[i])
    \/ \E i \in 1..2 : GenerateSummary(reqs[i])
    \/ \E i \in 1..2 : AnalyzeSentiment(reqs[i])
    \/ \E i \in 1..2 : CategorizeArticle(reqs[i])

Spec == Init /\ [][Next]_vars

----------------------------------------------------------------------------
(* Filling a cache.  A client calls one of the two call sites with ever    *)
(* new arguments, up to MaxExtra more than the cache holds; from when the  *)
(* cache is within MaxSlack entries of its capacity it also repeats its    *)
(* two oldest calls and lets time pass.                                    *)

FillOps ==
    <<"extract_keywords", "generate_summary", "analyze_sentiment", "categorize_article">>

\* the n-th distinct call of the filling client: the argument text is str(n)
FillRequest(site, n) ==
    IF IsNews(site)
    THEN NewsRequest(<< <<"q", PyStr(NatToStr(n))>> >>)
    ELSE LET op == FillOps[(n % 4) + 1] IN
         LlmRequest(op, NatToStr(n),
                    CASE op = "extract_keywords" -> DefaultNumKeywords
                      [] op = "generate_summary" -> DefaultMaxLength
                      [] OTHER -> 0,
                    IF op = "categorize_article" THEN DefaultCategories ELSE <<>>,
                    TRUE)

FillText(r) == IF IsNews(r) THEN DictGet(r.params, "q", PyStr(<<>>)).v ELSE r.text

SiteMaxSize(r) == IF IsNews(r) THEN NewsCacheMaxSize ELSE LlmCacheMaxSize

NearlyFull == Len(SiteCache(reqs[1])) + MaxSlack >= SiteMaxSize(reqs[1])

\* the argument texts in the order of their latest call
Touch(order, text) == SelectSeq(order, LAMBDA x : x # text) \o <<text>>

FillSites == {NewsRequest(<<>>), LlmRequest("analyze_sentiment", <<>>, 0, <<>>, TRUE)}

FillArgs ==
    {n \in 1..(issued + 1) :
        \/ n = issued + 1 /\ issued < SiteMaxSize(reqs[1]) + MaxExtra
        \/ n <= issued /\ n <= 2 /\ NearlyFull}

FillOutcome == [kind |-> "ok", has_articles |-> TRUE, articles |-> <<"art1">>]
FillLlmOutcome == [kind |-> "text", content |-> <<"w", "o", "r", "l", "d">>]

InitFill ==
    /\ now = 0
    /\ ticks = 0
    /\ news_api_cache = <<>>
    /\ llm_analysis_cache = <<>>
    /\ reqs \in {<<site>> : site \in FillSites}
    /\ last = NoCall
    /\ issued = 0
    /\ recency = <<>>
    /\ pin = <<>>
    /\ pout = <<>>
    /\ settings = DefaultSettings
    /\ user_preferences_db = <<>>
    /\ response = NoResponse
    /\ callers = <<>>

FillTick ==
    /\ NearlyFull
    /\ ticks < MaxTicks
    /\ \E d \in TickSteps(reqs[1]) : now' = now + d
    /\ ticks' = ticks + 1
    /\ UNCHANGED <<news_api_cache, llm_analysis_cache, reqs, last,
                   issued, recency, pin, pout,
                   settings, user_preferences_db, response, callers>>

FillFetch ==
    /\ IsNews(reqs[1])
    /\ \E n \in FillArgs :
         LET r == FillRequest(reqs[1], n) IN
         /\ fetch_articles(r, {FillOutcome})
         /\ issued' = IF n > issued THEN n ELSE issued
         /\ recency' = Touch(recency, FillText(r))
    /\ UNCHANGED <<reqs, pin, pout,
                   settings, user_preferences_db, response, callers>>

FillEnrich ==
    /\ IsLlm(reqs[1])
    /\ \E n \in FillArgs :
         LET r == FillRequest(reqs[1], n) IN
         /\ llm_call(r, {FillLlmOutcome})
         /\ issued' = IF n > issued THEN n ELSE issued
         /\ recency' = Touch(recency, FillText(r))
    /\ UNCHANGED <<reqs, pin, pout,
                   settings, user_preferences_db, response, callers>>

NextFill == FillTick \/ FillFetch \/ FillEnrich

SpecFill == InitFill /\ [][NextFill]_vars

----------------------------------------------------------------------------
(* processing/preference_processor.py                                      *)

\* the fields of api.models.UserPreferences that transform_for_fetching reads
UserPreferences(language, preferred_categories, keywords, sources, excluded_sources) ==
    [language |-> language, preferred_categories |-> preferred_categories,
     keywords |-> keywords, sources |-> sources,
     excluded_sources |-> excluded_sources]

TxtOr == <<" ", "O", "R", " ">>
TxtComma == <<",">>

\* the search terms with the keywords in front of the categories
transform_for_fetching_keywords_first(preferences) ==
    LET query_params ==
            << <<"language", PyStr(IF Len(preferences.language) > 0
                                   THEN preferences.language ELSE TxtEn)>>,
               <<"pageSize", PyInt(DefaultPageSize)>>,
               <<"sortBy", PyStr(TxtPublishedAt)>> >>
        search_terms == preferences.keywords \o preferences.preferred_categories
    IN query_params
       \o (IF Len(search_terms) > 0
           THEN << <<"q", PyStr(Join(TxtOr, search_terms))>> >> ELSE <<>>)
       \o (IF Len(preferences.sources) > 0
           THEN << <<"sources", PyStr(Join(TxtComma, preferences.sources))>> >>
           ELSE <<>>)
       \o (IF Len(preferences.excluded_sources) > 0
           THEN << <<"excludeDomains",
                     PyStr(Join(TxtComma, preferences.excluded_sources))>> >>
           ELSE <<>>)

\* PreferenceProcessor.transform_for_fetching: the returned dict, its items
\* in insertion order
transform_for_fetching(preferences) ==
    LET query_params ==
            << <<"language", PyStr(IF Len(preferences.language) > 0
                                   THEN preferences.language ELSE TxtEn)>>,
               <<"pageSize", PyInt(DefaultPageSize)>>,
               <<"sortBy", PyStr(TxtPublishedAt)>> >>
        search_terms == preferences.preferred_categories \o preferences.keywords
    IN query_params
       \o (IF Len(search_terms) > 0
           THEN << <<"q", PyStr(Join(TxtOr, search_terms))>> >> ELSE <<>>)
       \o (IF Len(preferences.sources) > 0
           THEN << <<"sources", PyStr(Join(TxtComma, preferences.sources))>> >>
           ELSE <<>>)
       \o (IF Len(preferences.excluded_sources) > 0
           THEN << <<"excludeDomains",
                     PyStr(Join(TxtComma, preferences.excluded_sources))>> >>
           ELSE <<>>)

----------------------------------------------------------------------------
(* recommendations/engine.py.  An article is a dict: a record whose fields *)
(* hold a Python value or PyAbsent when the dict has no such key.  The     *)
(* scores are multiples of 0.5 and are held as their number of halves.     *)

PyAbsent == [t |-> "absent", v |-> <<>>]
PyDict(d) == [t |-> "dict", v |-> d]
PyFloat(halves) == [t |-> "float", v |-> halves]
PyRaise(kind) == [t |-> "raise", v |-> kind]

Article(url, title, description, content, category, source, relevance_score, sentiment) ==
    [url |-> url, title |-> title, description |-> description,
     content |-> content, category |-> category, source |-> source,
     relevance_score |-> relevance_score, sentiment |-> sentiment,
     summary |-> PyAbsent, keywords |-> PyAbsent]

\* d.get(key, default) for the field that holds the key's value
GetOr(field, default) == IF field.t = "absent" THEN default ELSE field

\* needle in haystack, for str
Contains(haystack, needle) ==
    \E i \in 1..(Len(haystack) + 1) :
        /\ i + Len(needle) - 1 <= Len(haystack)
        /\ SubSeq(haystack, i, i + Len(needle) - 1) = needle

\* lines 24-27 and 43: the values .lower() is called on
LoweredFields(article) ==
    LET source == GetOr(article.source, PyDict([name |-> PyAbsent])) IN
    << GetOr(article.title, PyStr(<<>>)),
       GetOr(article.description, PyStr(<<>>)),
       GetOr(article.content, PyStr(<<>>)),
       IF source.t = "dict" THEN GetOr(source.v.name, PyStr(<<>>)) ELSE source >>

\* a scoring that folds the case of the categories as it does of the sources
score_article_folded(article, preferences) ==
    LET fields == LoweredFields(article) IN
    IF \E n \in 1..4 : fields[n].t # "str"
    THEN PyRaise("AttributeError")
    ELSE LET article_text == Lower(fields[1].v) \o <<" ">> \o Lower(fields[2].v)
                                 \o <<" ">> \o Lower(fields[3].v)
             matched == {n \in DOMAIN preferences.keywords :
                            Contains(article_text, Lower(preferences.keywords[n]))}
             article_category == GetOr(article.category, PyNone)
             in_categories ==
                 /\ Len(preferences.preferred_categories) > 0
                 /\ Truthy(article_category)
                 /\ \E n \in DOMAIN preferences.preferred_categories :
                        Lower(preferences.preferred_categories[n])
                            = Lower(article_category.v)
             article_source == Lower(fields[4].v)
             in_sources ==
                 \E n \in DOMAIN preferences.sources :
                     Lower(preferences.sources[n]) = article_source
         IN PyFloat(2 * Cardinality(matched)
                    + (IF in_categories THEN 4 ELSE 0)
                    + (IF in_sources THEN 1 ELSE 0))

\* RecommendationEngine.score_article: the score, or the AttributeError of
\* calling .lower() or .get() on None
score_article(article, preferences) ==
    LET fields == LoweredFields(article) IN
    IF \E n \in 1..4 : fields[n].t # "str"
    THEN PyRaise("AttributeError")
    ELSE LET article_text == Lower(fields[1].v) \o <<" ">> \o Lower(fields[2].v)
                                 \o <<" ">> \o Lower(fields[3].v)
             matched == {n \in DOMAIN preferences.keywords :
                            Contains(article_text, Lower(preferences.keywords[n]))}
             article_category == GetOr(article.category, PyNone)
             in_categories ==
                 /\ Len(preferences.preferred_categories) > 0
                 /\ Truthy(article_category)
                 /\ \E n \in DOMAIN preferences.preferred_categories :
                        preferences.preferred_categories[n] = article_category.v
             article_source == Lower(fields[4].v)
             in_sources ==
                 \E n \in DOMAIN preferences.sources :
                     Lower(preferences.sources[n]) = article_source
         IN PyFloat(2 * Cardinality(matched)
                    + (IF in_categories THEN 4 ELSE 0)
                    + (IF in_sources THEN 1 ELSE 0))

\* an insertion that puts an article behind the articles of equal score
\* that came after it in the input
RECURSIVE InsertRanked_unstable(_, _)
InsertRanked_unstable(article, ranked) ==
    IF Len(ranked) = 0 THEN <<article>>
    ELSE IF ranked[1].relevance_score.v >= article.relevance_score.v
    THEN <<ranked[1]>> \o InsertRanked_unstable(article, Tail(ranked))
    ELSE <<article>> \o ranked

\* line 69, sorted(..., reverse=True) one element at a time: an article goes
\* in front of the first article whose score is not higher than its own,
\* so that articles of equal score keep the order of the input
RECURSIVE InsertRanked(_, _)
InsertRanked(article, ranked) ==
    IF Len(ranked) = 0 THEN <<article>>
    ELSE IF ranked[1].relevance_score.v > article.relevance_score.v
    THEN <<ranked[1]>> \o InsertRanked(article, Tail(ranked))
    ELSE <<article>> \o ranked

RECURSIVE SortedByScore(_)
SortedByScore(articles) ==
    IF Len(articles) = 0 THEN <<>>
    ELSE InsertRanked(articles[1], SortedByScore(Tail(articles)))

\* RecommendationEngine.rank_articles: the ranked list, or the exception
\* of the first article whose scoring raises
rank_articles(articles, preferences) ==
    IF Len(articles) = 0 THEN PyList(<<>>)
    ELSE LET scores == [n \in DOMAIN articles |->
                           score_article(articles[n], preferences)]
         IN IF \E n \in DOMAIN articles : scores[n].t = "raise"
            THEN PyRaise("AttributeError")
            ELSE PyList(SortedByScore(
                     [n \in DOMAIN articles |->
                         [articles[n] EXCEPT !.relevance_score = scores[n]]]))

\* a slice that keeps one element more
PySlice_one_more(list, stop) ==
    IF stop >= 0
    THEN SubSeq(list, 1, Min(stop + 1, Len(list)))
    ELSE SubSeq(list, 1, IF Len(list) + stop > 0 THEN Len(list) + stop ELSE 0)

\* list[:stop]: a negative stop counts from the end of the list
PySlice(list, stop) ==
    IF stop >= 0
    THEN SubSeq(list, 1, Min(stop, Len(list)))
    ELSE SubSeq(list, 1, IF Len(list) + stop > 0 THEN Len(list) + stop ELSE 0)

\* RecommendationEngine.generate_recommendations
generate_recommendations(articles, preferences, num_recommendations) ==
    LET ranked_articles == rank_articles(articles, preferences) IN
    IF ranked_articles.t = "raise" THEN ranked_articles
    ELSE PyList(PySlice(ranked_articles.v, num_recommendations))

----------------------------------------------------------------------------
(* The functions that read and write no state, applied to chosen inputs:   *)
(* pin holds a function's name and two inputs x and y, pout the two        *)
(* results once the function has been applied.                             *)

TxtQuoted == <<"a", "\"">>
Txt20 == <<"2", "0">>
TxtEs == <<"e", "s">>
TxtCnn == <<"c", "n", "n">>

\* the items parameter mappings are made of
ParamItems ==
    {<<"q", PyStr(TxtAi)>>, <<"q", PyStr(TxtQuoted)>>,
     <<"language", PyStr(TxtEn)>>,
     <<"pageSize", PyInt(20)>>, <<"pageSize", PyStr(Txt20)>>}

\* dicts of up to three items in every insertion order, a key at most once
ParamDicts ==
    {<<>>}
    \cup {<<a>> : a \in ParamItems}
    \cup {d \in {<<a, b>> : a \in ParamItems, b \in ParamItems} : d[1][1] # d[2][1]}
    \cup {d \in {<<a, b, c>> : a \in ParamItems, b \in ParamItems, c \in ParamItems} :
            d[1][1] # d[2][1] /\ d[1][1] # d[3][1] /\ d[2][1] # d[3][1]}

KeyArgs ==
    [func_name : {"extract_keywords", "analyze_sentiment"},
     text : {<<>>, <<"a">>, <<"a", "1">>}]

PreferenceRecords ==
    {UserPreferences(l, c, k, s, e) :
        l \in {TxtEn, TxtEs, <<>>},
        c \in {<<>>, <<TxtTechnology>>},
        k \in {<<>>, <<TxtAi>>, <<TxtAi, TxtMl>>},
        s \in {<<>>, <<TxtBbc>>, <<TxtBbc, TxtCnn>>},
        e \in {<<>>, <<TxtCnn>>}}

TxtAiAi == <<"A", "I", " ", "a", "i">>
TxtGo == <<"g", "o">>
TxtBbcName == <<"B", "B", "C">>

BaseArticle ==
    Article("u1", PyStr(TxtAiAi), PyStr(TxtMl), PyStr(TxtGo), PyStr(TxtTechnology),
            PyDict([name |-> PyStr(TxtBbcName)]), PyAbsent, PyAbsent)

\* the articles that are scored: the base article with one field absent,
\* null or different, and the article without any field
ScoredArticles ==
    {BaseArticle,
     Article("u1", PyAbsent, PyAbsent, PyAbsent, PyAbsent, PyAbsent, PyAbsent, PyAbsent)}
    \cup {[BaseArticle EXCEPT !.title = v] : v \in {PyAbsent, PyNone}}
    \cup {[BaseArticle EXCEPT !.description = v] : v \in {PyAbsent, PyNone}}
    \cup {[BaseArticle EXCEPT !.content = v] : v \in {PyAbsent, PyNone}}
    \cup {[BaseArticle EXCEPT !.category = v] :
            v \in {PyAbsent, PyNone, PyStr(<<>>),
                   PyStr(<<"T", "e", "c", "h", "n", "o", "l", "o", "g", "y">>)}}
    \cup {[BaseArticle EXCEPT !.source = v] :
            v \in {PyAbsent, PyNone, PyDict([name |-> PyAbsent]),
                   PyDict([name |-> PyNone]), PyDict([name |-> PyStr(TxtCnn)])}}
    \cup {[BaseArticle EXCEPT !.relevance_score = PyFloat(9)],
          [BaseArticle EXCEPT !.sentiment = PyStr(TxtPositive)]}

ScoringPreferences ==
    {UserPreferences(TxtEn, c, k, s, <<>>) :
        c \in {<<>>, <<TxtTechnology>>, <<TxtSports, TxtTechnology>>,
               <<<<"T", "e", "c", "h", "n", "o", "l", "o", "g", "y">>>>},
        k \in {<<>>, <<TxtAi>>, <<<<"A", "I">>, <<"M", "L">>>>, <<<<"i", " ", "m">>>>,
               <<<<"z", "z">>, TxtGo>>},
        s \in {<<>>, <<TxtBbc>>, <<<<"C", "n", "n">>, TxtBbcName>>}}

\* the articles that are ranked: two that score alike, one that matches
\* nothing, one that matches a keyword only, one with a null title
RankedArticles ==
    << BaseArticle,
       [BaseArticle EXCEPT !.url = "u2"],
       Article("u3", PyStr(<<"x">>), PyAbsent, PyAbsent, PyAbsent, PyAbsent,
               PyAbsent, PyAbsent),
       Article("u4", PyStr(TxtAi), PyAbsent, PyAbsent, PyAbsent, PyAbsent,
               PyFloat(9), PyAbsent),
       Article("u5", PyNone, PyStr(TxtAi), PyAbsent, PyAbsent, PyAbsent,
               PyAbsent, PyAbsent) >>

\* the lists of up to MaxArticles different articles, in every order
ArticleSequences ==
    {<<>>} \cup
    UNION {{[n \in 1..k |-> RankedArticles[f[n]]] :
               f \in {g \in [1..k -> DOMAIN RankedArticles] :
                         \A a, b \in 1..k : a # b => g[a] # g[b]}} :
           k \in 1..MaxArticles}

RankingPreferences ==
    {UserPreferences(TxtEn, <<TxtTechnology>>, <<TxtAi>>, <<TxtBbc>>, <<>>),
     UserPreferences(TxtEn, <<>>, <<>>, <<>>, <<>>)}

RequestedCounts == (0 - 2)..(MaxArticles + 1)

\* what the provider can answer an enrichment call with
EnrichmentOutcomes ==
    {[kind |-> "text", content |-> c] :
        c \in {<<" ", "p", "o", "s", "i", "t", "i", "v", "e", " ">>,
               <<"N", "E", "G", "A", "T", "I", "V", "E">>,
               <<"N", "e", "u", "t", "r", "a", "l">>,
               <<"m", "o", "s", "t", "l", "y", " ", "o", "k", "a", "y">>,
               <<>>, <<" ", " ">>,
               <<" ", "T", "e", "c", "h", "n", "o", "l", "o", "g", "y", " ">>,
               <<"W", "o", "r", "l", "d", " ", "N", "e", "w", "s">>,
               <<"a", "i">>,
               <<"a", "i", ",", " ", "m", "l", ",", ",", "x", " ">>,
               <<",", " ", ",">>}}
    \cup {[kind |-> k, content |-> <<>>] : k \in LlmFailureKinds}

EnrichmentRequests ==
    {LlmRequest("extract_keywords", <<"a">>, DefaultNumKeywords, <<>>, ok) :
        ok \in BOOLEAN}
    \cup {LlmRequest("generate_summary", <<"a">>, DefaultMaxLength, <<>>, ok) :
            ok \in BOOLEAN}
    \cup {LlmRequest("analyze_sentiment", <<"a">>, 0, <<>>, ok) : ok \in BOOLEAN}
    \cup {LlmRequest("categorize_article", <<"a">>, 0, c, ok) :
            c \in {DefaultCategories, <<TxtWorld, <<"A", "I">>>>}, ok \in BOOLEAN}

InitPure ==
    /\ now = 0
    /\ ticks = 0
    /\ news_api_cache = <<>>
    /\ llm_analysis_cache = <<>>
    /\ reqs = <<>>
    /\ last = NoCall
    /\ issued = 0
    /\ recency = <<>>
    /\ pout = <<>>
    /\ settings = DefaultSettings
    /\ user_preferences_db = <<>>
    /\ response = NoResponse
    /\ callers = <<>>
    /\ \/ \E x \in ParamDicts, y \in ParamDicts :
             pin = [fn |-> "make_cache_key", x |-> x, y |-> y]
       \/ \E x \in KeyArgs, y \in KeyArgs :
             pin = [fn |-> "generate_cache_key", x |-> x, y |-> y]
       \/ \E x \in PreferenceRecords :
             pin = [fn |-> "transform_for_fetching", x |-> x, y |-> x]
       \/ \E r \in EnrichmentRequests, o \in EnrichmentOutcomes :
             LET x == [req |-> r, outcome |-> o] IN
             pin = [fn |-> r.op, x |-> x, y |-> x]
       \/ \E a \in ScoredArticles, p \in ScoringPreferences :
             LET x == [article |-> a, preferences |-> p] IN
             pin = [fn |-> "score_article", x |-> x, y |-> x]
       \/ \E l \in ArticleSequences, p \in RankingPreferences :
             LET x == [articles |-> l, preferences |-> p] IN
             pin = [fn |-> "rank_articles", x |-> x, y |-> x]
       \/ \E l \in ArticleSequences, p \in RankingPreferences, n \in RequestedCounts :
             LET x == [articles |-> l, preferences |-> p, num_recommendations |-> n] IN
             pin = [fn |-> "generate_recommendations", x |-> x, y |-> x]

Unapplied == pout = <<>>

MakeCacheKey ==
    /\ Unapplied
    /\ pin.fn = "make_cache_key"
    /\ pout' = <<make_cache_key(pin.x), make_cache_key(pin.y)>>
    /\ UNCHANGED <<now, ticks, news_api_cache, llm_analysis_cache, reqs, last,
                   issued, recency, pin,
                   settings, user_preferences_db, response, callers>>

GenerateCacheKey ==
    /\ Unapplied
    /\ pin.fn = "generate_cache_key"
    /\ pout' = <<generate_cache_key(pin.x.func_name, pin.x.text),
                 generate_cache_key(pin.y.func_name, pin.y.text)>>
    /\ UNCHANGED <<now, ticks, news_api_cache, llm_analysis_cache, reqs, last,
                   issued, recency, pin,
                   settings, user_preferences_db, response, callers>>

TransformForFetching ==
    /\ Unapplied
    /\ pin.fn = "transform_for_fetching"
    /\ pout' = <<transform_for_fetching(pin.x), transform_for_fetching(pin.y)>>
    /\ UNCHANGED <<now, ticks, news_api_cache, llm_analysis_cache, reqs, last,
                   issued, recency, pin,
                   settings, user_preferences_db, response, callers>>

ScoreArticle ==
    /\ Unapplied
    /\ pin.fn = "score_article"
    /\ pout' = <<score_article(pin.x.article, pin.x.preferences),
                 score_article(pin.y.article, pin.y.preferences)>>
    /\ UNCHANGED <<now, ticks, news_api_cache, llm_analysis_cache, reqs, last,
                   issued, recency, pin,
                   settings, user_preferences_db, response, callers>>

RankArticles ==
    /\ Unapplied
    /\ pin.fn = "rank_articles"
    /\ pout' = <<rank_articles(pin.x.articles, pin.x.preferences),
                 rank_articles(pin.y.articles, pin.y.preferences)>>
    /\ UNCHANGED <<now, ticks, news_api_cache, llm_analysis_cache, reqs, last,
                   issued, recency, pin,
                   settings, user_preferences_db, response, callers>>

GenerateRecommendations ==
    /\ Unapplied
    /\ pin.fn = "generate_recommendations"
    /\ pout' = <<generate_recommendations(pin.x.articles, pin.x.preferences,
                                          pin.x.num_recommendations),
                 generate_recommendations(pin.y.articles, pin.y.preferences,
                                          pin.y.num_recommendations)>>
    /\ UNCHANGED <<now, ticks, news_api_cache, llm_analysis_cache, reqs, last,
                   issued, recency, pin,
                   settings, user_preferences_db, response, callers>>

\* the body of one of the four analyzer methods, run for a provider outcome
EnrichmentMethod ==
    /\ Unapplied
    /\ IsLlm([op |-> pin.fn])
    /\ pout' = <<LlmResult(pin.x.req, pin.x.outcome),
                 LlmResult(pin.y.req, pin.y.outcome)>>
    /\ UNCHANGED <<now, ticks, news_api_cache, llm_analysis_cache, reqs, last,
                   issued, recency, pin,
                   settings, user_preferences_db, response, callers>>

NextPure ==
    \/ MakeCacheKey \/ GenerateCacheKey \/ TransformForFetching
    \/ EnrichmentMethod
    \/ ScoreArticle \/ RankArticles \/ GenerateRecommendations

SpecPure == InitPure /\ [][NextPure]_vars

----------------------------------------------------------------------------
(* api/main.py: the preference store and the two handlers.  A handler runs *)
(* from its first line to its return without a suspension point, so each   *)
(* is one step.  `response` keeps the answer and, as history, what the     *)
(* handler did to produce it.                                              *)

MaxCalls == 3

NumRecommendations == 20

UserIds == {"u1", "u2"}

\* d.setdefault(k, v): the value of a key that is present stays
DictSet_keep(d, k, v) ==
    IF HasKey(d, k) THEN d ELSE d \o << <<k, v>> >>

\* d[k] = v
DictSet(d, k, v) ==
    IF HasKey(d, k)
    THEN [i \in 1..Len(d) |-> IF d[i][1] = k THEN <<k, v>> ELSE d[i]]
    ELSE d \o << <<k, v>> >>

TxtNA == <<"N", "/", "A">>
TxtS == <<"s">>

\* the articles the search boundary delivers: one with content, one whose
\* title is empty and that has no other text, one with a title only, one
\* whose title is null
RawArticles ==
    << Article("u1", PyStr(TxtAiAi), PyStr(TxtMl), PyStr(TxtGo), PyAbsent,
               PyDict([name |-> PyStr(TxtBbcName)]), PyAbsent, PyAbsent),
       Article("u2", PyStr(<<>>), PyAbsent, PyAbsent, PyAbsent,
               PyDict([name |-> PyStr(TxtBbcName)]), PyAbsent, PyAbsent),
       Article("u3", PyStr(TxtAi), PyAbsent, PyAbsent, PyAbsent, PyAbsent,
               PyAbsent, PyAbsent),
       Article("u4", PyNone, PyStr(TxtMl), PyAbsent, PyAbsent, PyAbsent,
               PyAbsent, PyAbsent) >>

\* what one search can end in when a handler makes it
ApiNewsOutcomes ==
    {[kind |-> "ok", has_articles |-> TRUE, articles |-> l] :
        l \in {SubSeq(RawArticles, 1, 3), SubSeq(RawArticles, 4, 4), <<>>}}
    \cup {[kind |-> "timeout", has_articles |-> FALSE, articles |-> <<>>]}

EnrichOps ==
    <<"generate_summary", "extract_keywords", "analyze_sentiment", "categorize_article">>

\* what the provider answers an enrichment call with: a well-formed answer,
\* or an error when the operation is one of `fails`
ApiLlmOutcome(op, fails) ==
    IF op \in fails
    THEN [kind |-> "openai_error", content |-> <<>>]
    ELSE [kind |-> "text",
          content |-> CASE op = "generate_summary" -> TxtS
                        [] op = "extract_keywords" -> <<"a", "i", ",", " ", "m", "l">>
                        [] op = "analyze_sentiment" -> <<"P", "o", "s", "i", "t", "i", "v", "e">>
                        [] OTHER -> <<"T", "e", "c", "h", "n", "o", "l", "o", "g", "y">>]

\* the names of the four analyzer methods
EnrichOpNames == {EnrichOps[k] : k \in DOMAIN EnrichOps}

\* an analyzer method called with the text alone, its other parameter left
\* at the default
DefaultCall(op, text, client_ok) ==
    LlmRequest(op, text,
               CASE op = "extract_keywords" -> DefaultNumKeywords
                 [] op = "generate_summary" -> DefaultMaxLength
                 [] OTHER -> 0,
               IF op = "categorize_article" THEN DefaultCategories ELSE <<>>,
               client_ok)

\* line 135: content, else description, else title, else ""
text_content(article) ==
    IF Truthy(GetOr(article.content, PyNone)) THEN article.content
    ELSE IF Truthy(GetOr(article.description, PyNone)) THEN article.description
    ELSE IF Truthy(GetOr(article.title, PyNone)) THEN article.title
    ELSE PyStr(<<>>)

\* one analyzer method called on `text` through its @cached decorator, the
\* cache and the values obtained so far being those of `acc`
analyzer_call(acc, op, text, fails, time) ==
    LET r == DefaultCall(op, text, TRUE)
        c == cached(acc.cache, RequestKey(r), time, LlmCacheMaxSize, LlmCacheTtl,
                    LlmResult(r, ApiLlmOutcome(op, fails)), r)
    IN [cache |-> c.cache, values |-> Append(acc.values, c.value),
        llm_contacts |-> acc.llm_contacts + (IF c.hit THEN 0 ELSE 1)]

\* lines 140-145: the copy with the four fields set, then the debug line
\* that slices the title and raises TypeError when the title is None
analyzed_copy(article, acc) ==
    [article |-> [article EXCEPT !.summary = acc.values[1],
                                 !.keywords = acc.values[2],
                                 !.sentiment = acc.values[3],
                                 !.category = acc.values[4]],
     raised |-> GetOr(article.title, PyStr(TxtNA)).t # "str",
     cache |-> acc.cache,
     llm_contacts |-> acc.llm_contacts]

\* lines 140-145 for one article with text: the four calls in their order
analyze_article(article, cache, fails, time) ==
    analyzed_copy(article,
        analyzer_call(
            analyzer_call(
                analyzer_call(
                    analyzer_call([cache |-> cache, values |-> <<>>, llm_contacts |-> 0],
                                  "generate_summary", text_content(article).v, fails, time),
                    "extract_keywords", text_content(article).v, fails, time),
                "analyze_sentiment", text_content(article).v, fails, time),
            "categorize_article", text_content(article).v, fails, time))

\* the loop's state after the analysis `a` of one article with text
with_analyzed(acc, a) ==
    IF a.raised
    THEN [acc EXCEPT !.cache = a.cache, !.enrich_calls = @ + 4,
                     !.llm_contacts = @ + a.llm_contacts, !.raised = TRUE]
    ELSE [acc EXCEPT !.analyzed = Append(@, a.article),
                     !.copied = Append(@, TRUE),
                     !.cache = a.cache, !.enrich_calls = @ + 4,
                     !.llm_contacts = @ + a.llm_contacts]

\* lines 133-149, the loop of the branch with a client, from the state
\* `acc`.  `fails` gives for each article the operations the provider
\* fails when it is asked.  `copied` tells the entries that are copies from
\* those that are the fetched dict itself.
RECURSIVE analyze_articles(_, _, _, _)
analyze_articles(articles, fails, time, acc) ==
    IF Len(articles) = 0 \/ acc.raised THEN acc
    ELSE analyze_articles(Tail(articles), Tail(fails), time,
             IF Truthy(text_content(articles[1]))
             THEN with_analyzed(acc, analyze_article(articles[1], acc.cache,
                                                     fails[1], time))
             ELSE [acc EXCEPT !.analyzed = Append(@, articles[1]),
                              !.copied = Append(@, FALSE)])

\* engine.py lines 62-66: how many articles the loop of rank_articles
\* scores and writes a relevance_score into before one raises
ScoredInPlace(articles, preferences) ==
    LET raising == {n \in DOMAIN articles :
                       score_article(articles[n], preferences).t = "raise"}
    IN IF raising = {} THEN Len(articles)
       ELSE (CHOOSE n \in raising : \A k \in raising : n <= k) - 1

\* the list `fetched` when the first `scored` articles handed to the
\* engine have been given their relevance_score
WithScores(fetched, articles_to_rank, copied, preferences, scored) ==
    [n \in DOMAIN fetched |->
        IF ~copied[n] /\ n <= scored
        THEN [fetched[n] EXCEPT
                 !.relevance_score = score_article(articles_to_rank[n], preferences)]
        ELSE fetched[n]]

\* the fetched list after a ranking run over `articles_to_rank`: the dicts
\* that were handed to the engine themselves, not as copies, now hold their
\* relevance_score
AfterRanking(fetched, articles_to_rank, copied, preferences) ==
    WithScores(fetched, articles_to_rank, copied, preferences,
               ScoredInPlace(articles_to_rank, preferences))

\* ResponseFormatter.format_single_article
format_single_article(article_data) ==
    LET title == GetOr(article_data.title, PyStr(TxtNA))
        holder == GetOr(article_data.source, PyDict([name |-> PyAbsent]))
        source == IF holder.t = "dict" THEN GetOr(holder.v.name, PyStr(TxtNA))
                  ELSE PyRaise("AttributeError")
    IN IF title.t = "str" /\ source.t = "str"
       THEN [title |-> title, url |-> article_data.url, source |-> source,
             summary |-> GetOr(article_data.summary, PyNone),
             keywords |-> GetOr(article_data.keywords, PyNone),
             sentiment |-> GetOr(article_data.sentiment, PyNone),
             category |-> GetOr(article_data.category, PyNone),
             relevance_score |-> GetOr(article_data.relevance_score, PyNone)]
       ELSE [title |-> PyStr(<<"E", "r", "r", "o", "r">>),
             url |-> article_data.url, source |-> PyStr(TxtNA),
             summary |-> PyStr(<<"C", "o", "u", "l", "d", " ", "n", "o", "t">>),
             keywords |-> PyNone, sentiment |-> PyNone, category |-> PyNone,
             relevance_score |-> PyNone]

\* ResponseFormatter.format_recommendation_list
format_recommendation_list(articles) ==
    [n \in DOMAIN articles |-> format_single_article(articles[n])]

\* the response of a handler, the fields of what it did not do left at
\* their defaults
Answer(op, user_id, status_code) ==
    [NoResponse EXCEPT !.op = op, !.user_id = user_id,
                       !.status_code = status_code,
                       !.served = response.served + 1]

\* lines 154-169: ranking and formatting `a.analyzed`, the articles to rank
ranking_step(so_far, user_prefs, got, a) ==
    LET ranked_articles == generate_recommendations(a.analyzed, user_prefs,
                                                    NumRecommendations)
    IN [response |->
            IF ranked_articles.t = "raise"
            THEN [so_far EXCEPT !.rank_calls = 1, !.articles_to_rank = a.analyzed,
                                !.status_code = 500]
            ELSE [so_far EXCEPT !.rank_calls = 1, !.articles_to_rank = a.analyzed,
                                !.recommendations =
                                    format_recommendation_list(ranked_articles.v)],
        news_api_cache |->
            [got.cache EXCEPT ![Len(got.cache)].value =
                PyList(AfterRanking(got.value.v, a.analyzed, a.copied, user_prefs))],
        llm_analysis_cache |-> a.cache]

\* lines 124-152 once the analysis `a` is made: an exception in the loop
\* ends the request
analysis_step(so_far, user_prefs, got, a) ==
    IF a.raised
    THEN [response |-> [so_far EXCEPT !.enrich_calls = a.enrich_calls,
                                      !.llm_contacts = a.llm_contacts,
                                      !.status_code = 500],
          news_api_cache |-> got.cache, llm_analysis_cache |-> a.cache]
    ELSE ranking_step([so_far EXCEPT !.enrich_calls = a.enrich_calls,
                                     !.llm_contacts = a.llm_contacts],
                      user_prefs, got, a)

\* a test that lets the absent result through to the analysis
nothing_fetched_never(fetched_articles_raw) == FALSE

\* line 119: fetched_articles_raw is None
nothing_fetched(fetched_articles_raw) == fetched_articles_raw = PyNone

\* an analyzer that reports a client whatever the settings
client_always == TRUE

\* LlmAnalyzer().client, read at line 127: there is a client when the
\* settings hold an OpenAI key
client == settings.OPENAI_API_KEY

\* lines 119-131 once the cached search `got` is made
fetch_step(this, user_prefs, got, fails) ==
    LET so_far == [this EXCEPT !.fetch_calls = 1,
                               !.fetch_contacts = IF got.hit THEN 0 ELSE 1,
                               !.fetch_hit = got.hit,
                               !.fetched = got.value,
                               !.received = got.cache[Len(got.cache)].by.received]
        unanalyzed == [analyzed |-> <<>>, copied |-> <<>>,
                       cache |-> llm_analysis_cache,
                       enrich_calls |-> 0, llm_contacts |-> 0, raised |-> FALSE]
    IN IF nothing_fetched(got.value)
       THEN [response |-> so_far, news_api_cache |-> got.cache,
             llm_analysis_cache |-> llm_analysis_cache]
       ELSE IF client
       THEN analysis_step(so_far, user_prefs, got,
                          analyze_articles(got.value.v, fails, now, unanalyzed))
       ELSE analysis_step(so_far, user_prefs, got,
                          [unanalyzed EXCEPT
                              !.analyzed = got.value.v,
                              !.copied = [n \in DOMAIN got.value.v |-> FALSE]])

\* lines 87-169 for a user, when a search that is made ends in `outcome`
\* and the provider fails the operations `fails[n]` of the n-th article:
\* the response and the two caches afterwards
get_recommendations(user_id, outcome, fails) ==
    LET this == Answer("get_recommendations", user_id, 200)
        user_prefs == DictGet(user_preferences_db, user_id, NoResponse.preferences)
        query_params == transform_for_fetching(user_prefs)
        computed == fetch_articles_result(outcome)
    IN
    IF ~HasKey(user_preferences_db, user_id)
    THEN [response |-> [this EXCEPT !.status_code = 404],
          news_api_cache |-> news_api_cache,
          llm_analysis_cache |-> llm_analysis_cache]
    ELSE IF ~settings.NEWSAPI_KEY
    THEN [response |-> [this EXCEPT !.status_code = 500],
          news_api_cache |-> news_api_cache,
          llm_analysis_cache |-> llm_analysis_cache]
    ELSE fetch_step(this, user_prefs,
                    cached(news_api_cache, fetch_articles_key(query_params), now,
                           NewsCacheMaxSize, NewsCacheTtl, computed,
                           [request |-> NewsRequest(query_params),
                            received |-> computed]),
                    fails)

\* whether the four analyzer calls for an article's text would all be
\* answered from the cache
Enriched(article) ==
    \A k \in DOMAIN EnrichOps :
        LET key == RequestKey(DefaultCall(EnrichOps[k], text_content(article).v, TRUE))
            i == IndexOf(llm_analysis_cache, key)
        IN i # 0 /\ ~IsExpired(llm_analysis_cache[i], now)

\* the searches whose end is open: none when the answer is in the cache
OpenNewsOutcomes(user_id) ==
    LET user_prefs == DictGet(user_preferences_db, user_id, NoResponse.preferences)
        key == fetch_articles_key(transform_for_fetching(user_prefs))
        i == IndexOf(news_api_cache, key)
    IN IF ~HasKey(user_preferences_db, user_id) \/ ~settings.NEWSAPI_KEY
          \/ (i # 0 /\ ~IsExpired(news_api_cache[i], now))
       THEN {[kind |-> "timeout", has_articles |-> FALSE, articles |-> <<>>]}
       ELSE ApiNewsOutcomes

\* the list a request of the user gets when a search that is made ends in
\* `outcome`; empty when it gets none
FetchedBy(user_id, outcome) ==
    LET user_prefs == DictGet(user_preferences_db, user_id, NoResponse.preferences)
        key == fetch_articles_key(transform_for_fetching(user_prefs))
        i == IndexOf(news_api_cache, key)
        value == IF i # 0 /\ ~IsExpired(news_api_cache[i], now)
                 THEN news_api_cache[i].value
                 ELSE fetch_articles_result(outcome)
    IN IF HasKey(user_preferences_db, user_id) /\ settings.NEWSAPI_KEY
          /\ value.t = "list"
       THEN value.v ELSE <<>>

\* the sets of operations the provider is let fail for one article
FailSets ==
    {{}, {"generate_summary"}, {"extract_keywords", "categorize_article"},
     EnrichOpNames}

\* the operations the provider may fail for each article of a list: one of
\* FailSets for the first article whose calls reach the provider, none or
\* all of them for a later one
FailChoices(articles) ==
    LET all == EnrichOpNames
        open == {n \in DOMAIN articles :
                    /\ settings.OPENAI_API_KEY
                    /\ Truthy(text_content(articles[n]))
                    /\ ~Enriched(articles[n])}
    IN {[n \in DOMAIN articles |-> IF n \in open THEN f[n] ELSE {}] :
           f \in {g \in [open -> FailSets] :
                     \A n \in open :
                         (\E k \in open : k < n) => g[n] \in {{}, all}}}

InitApi ==
    /\ now = 0
    /\ ticks = 0
    /\ news_api_cache = <<>>
    /\ llm_analysis_cache = <<>>
    /\ reqs = <<>>
    /\ last = NoCall
    /\ issued = 0
    /\ recency = <<>>
    /\ pin = <<>>
    /\ pout = <<>>
    /\ settings \in [NEWSAPI_KEY : BOOLEAN, OPENAI_API_KEY : BOOLEAN]
    /\ user_preferences_db = <<>>
    /\ response = NoResponse
    /\ callers = <<>>

\* time passes: the longer of the two times-to-live
ApiTick ==
    /\ ticks < MaxTicks
    /\ now' = now + LlmCacheTtl
    /\ ticks' = ticks + 1
    /\ UNCHANGED <<news_api_cache, llm_analysis_cache, reqs, last,
                   issued, recency, pin, pout,
                   settings, user_preferences_db, response, callers>>

\* POST /api/preferences, lines 71-85
ReceivePreferences ==
    /\ response.served < MaxCalls
    /\ \E user_id \in UserIds, preferences \in RankingPreferences :
         /\ user_preferences_db' = DictSet(user_preferences_db, user_id, preferences)
         /\ response' = [Answer("receive_preferences", user_id, 201)
                            EXCEPT !.preferences = preferences]
    /\ UNCHANGED <<now, ticks, news_api_cache, llm_analysis_cache, reqs, last,
                   issued, recency, pin, pout, settings, callers>>

\* the handler's effects take place
Answered(done) ==
    /\ response' = done.response
    /\ news_api_cache' = done.news_api_cache
    /\ llm_analysis_cache' = done.llm_analysis_cache

\* GET /api/recommendations, lines 87-169
GetRecommendations ==
    /\ response.served < MaxCalls
    /\ \E user_id \in UserIds : \E outcome \in OpenNewsOutcomes(user_id) :
       \E fails \in FailChoices(FetchedBy(user_id, outcome)) :
         Answered(get_recommendations(user_id, outcome, fails))
    /\ UNCHANGED <<now, ticks, reqs, last, issued, recency, pin, pout,
                   settings, user_preferences_db, callers>>

NextApi == ApiTick \/ ReceivePreferences \/ GetRecommendations

SpecApi == InitApi /\ [][NextApi]_vars

----------------------------------------------------------------------------
(* Concurrent callers.  The two decorators are given no lock, so threads   *)
(* that call a cached method at the same time run the wrapper's steps      *)
(* interleaved: the lookup cache[k], the wrapped function, and the store   *)
(* cache[k] = v, which itself first makes room and looks for the key and   *)
(* then writes the entry.  A thread can be preempted between any two of    *)
(* these.                                                                  *)

MaxCallers == 2

\* the n-th of the distinct searches that filled the cache before
EarlierRequest(n) == NewsRequest(<< <<"q", PyStr(NatToStr(n))>> >>)

\* the article cache as n earlier calls with distinct parameters, made
\* one after the other at time 0, leave it (n at most the capacity)
FilledCache(n) ==
    [k \in 1..n |->
        [key |-> fetch_articles_key(EarlierRequest(k).params),
         value |-> PyList(<<NatToStr(k)>>),
         expires |-> 0 + NewsCacheTtl,
         by |-> EarlierRequest(k)]]

\* the searches the concurrent callers make
RaceRequests ==
    {NewsRequest(<< <<"q", PyStr(q)>> >>) : q \in {TxtAi, TxtMl}}

\* what the search of a request returns when it is made: the articles for
\* its query, or None
RaceResults(r) == {PyList(<<DictGet(r.params, "q", PyNone).v>>), PyNone}

\* a thread about to call fetch_articles
Caller(r) == [pc |-> "lookup", req |-> r, value |-> PyNone, present |-> FALSE]

InitRace ==
    /\ now = 0
    /\ ticks = 0
    /\ news_api_cache \in {<<>>, FilledCache(NewsCacheMaxSize - 1)}
    /\ llm_analysis_cache = <<>>
    /\ reqs = <<>>
    /\ last = NoCall
    /\ issued = 0
    /\ recency = <<>>
    /\ pin = <<>>
    /\ pout = <<>>
    /\ settings = DefaultSettings
    /\ user_preferences_db = <<>>
    /\ response = NoResponse
    /\ callers \in [1..MaxCallers -> {Caller(r) : r \in RaceRequests}]

\* what no caller's step changes
RaceFrame ==
    UNCHANGED <<now, ticks, llm_analysis_cache, reqs, last, issued, recency,
                pin, pout, settings, user_preferences_db, response>>

\* the wrapper's `return cache[k]`, or its KeyError
Lookup(i) ==
    /\ callers[i].pc = "lookup"
    /\ LET g == TTLCache_getitem(news_api_cache,
                                 fetch_articles_key(callers[i].req.params), now)
       IN /\ news_api_cache' = g.cache
          /\ callers' = [callers EXCEPT
                            ![i].pc = IF g.found THEN "returned" ELSE "compute",
                            ![i].value = g.value]
    /\ RaceFrame

\* the wrapper's `v = func(*args, **kwargs)`
Compute(i) ==
    /\ callers[i].pc = "compute"
    /\ \E v \in RaceResults(callers[i].req) :
          callers' = [callers EXCEPT ![i].pc = "store", ![i].value = v]
    /\ UNCHANGED news_api_cache
    /\ RaceFrame

\* the first half of `cache[k] = v`: expire, then pop least recently used
\* entries while the cache is full unless the key is there, and see
\* whether the key has a link
StoreCheck(i) ==
    /\ callers[i].pc = "store"
    /\ LET live == Expire(news_api_cache, now)
           at == IndexOf(live, fetch_articles_key(callers[i].req.params))
       IN /\ news_api_cache' = IF at # 0 THEN live
                               ELSE EvictWhileFull(live, NewsCacheMaxSize)
          /\ callers' = [callers EXCEPT ![i].pc = "insert",
                                        ![i].present = (at # 0)]
    /\ RaceFrame

\* the second half: write the value and put the key's link at the most
\* recently used end, a new link if none was seen
StoreInsert(i) ==
    /\ callers[i].pc = "insert"
    /\ LET key == fetch_articles_key(callers[i].req.params)
           at == IndexOf(news_api_cache, key)
           entry == [key |-> key, value |-> callers[i].value,
                     expires |-> now + NewsCacheTtl, by |-> callers[i].req]
       IN news_api_cache' =
              IF callers[i].present /\ at # 0
              THEN RemoveAt(news_api_cache, at) \o <<entry>>
              ELSE news_api_cache \o <<entry>>
    /\ callers' = [callers EXCEPT ![i].pc = "returned"]
    /\ RaceFrame

NextRace ==
    \/ \E i \in 1..MaxCallers : Lookup(i)
    \/ \E i \in 1..MaxCallers : Compute(i)
    \/ \E i \in 1..MaxCallers : StoreCheck(i)
    \/ \E i \in 1..MaxCallers : StoreInsert(i)

SpecRace == InitRace /\ [][NextRace]_vars

----------------------------------------------------------------------------
(* What the claims speak of *)

\* the time-to-live the specification gives the cache of a request
StatedTtl(r) == IF IsNews(r) THEN 600 ELSE 3600
SiteCacheAfter(r) == IF IsNews(r) THEN news_api_cache' ELSE llm_analysis_cache'

DictItems(d) == {d[i] : i \in 1..Len(d)}

\* the two calls pass equal arguments (dicts compare without order)
SameArguments(r1, r2) ==
    /\ r1.op = r2.op
    /\ DictItems(r1.params) = DictItems(r2.params)
    /\ r1.text = r2.text
    /\ r1.num = r2.num
    /\ r1.categories = r2.categories

\* the entries an earlier call with r's arguments stored and that are still
\* live at the time of the call
LiveEntriesOf(r) ==
    {i \in 1..Len(SiteCache(r)) :
        /\ SameArguments(SiteCache(r)[i].by, r)
        /\ now - (SiteCache(r)[i].expires - StatedTtl(r)) < StatedTtl(r)}

\* a step in which a cached method was called: the clock stands still
CallStep == now' = now

\* C1: a call with the arguments of an earlier call whose entry is still
\* live returns the stored value and does not contact the boundary; a call
\* with other arguments (none of whose earlier calls has a live entry)
\* does contact it.
C1_HitElseInvoke ==
    [][CallStep =>
        LET r == last'.req
            stored == LiveEntriesOf(r)
        IN /\ \A i \in stored :
                /\ last'.hit
                /\ last'.result = SiteCache(r)[i].value
                /\ last'.contacts = 0
           /\ (stored = {} /\ r.client_ok) => last'.contacts = 1]_vars

\* the part of C1 about a repeated call alone
C1_HitPart ==
    [][CallStep =>
        \A i \in LiveEntriesOf(last'.req) :
            /\ last'.hit
            /\ last'.result = SiteCache(last'.req)[i].value
            /\ last'.contacts = 0]_vars

\* C2: an entry inserted at time t answers every call with its key made
\* at a time now with now - t < ttl, and is treated as absent when
\* now - t >= ttl: that call runs the computation again and stores a fresh
\* entry (ttl 600 for the article cache, 3600 for the enrichment cache).
C2_Expiry ==
    [][CallStep =>
        LET r == last'.req
            cache == SiteCache(r)
            ttl == StatedTtl(r)
        IN \A i \in 1..Len(cache) :
             cache[i].key = RequestKey(r) =>
                LET t == cache[i].expires - ttl IN
                /\ now - t < ttl =>
                      last'.hit /\ last'.result = cache[i].value
                /\ now - t >= ttl =>
                      /\ ~last'.hit
                      /\ r.client_ok => last'.contacts = 1
                      /\ \E j \in 1..Len(SiteCacheAfter(r)) :
                            /\ SiteCacheAfter(r)[j].key = RequestKey(r)
                            /\ SiteCacheAfter(r)[j].expires = now + ttl
                            /\ SiteCacheAfter(r)[j].value = last'.result]_vars

\* C2's case: a call found its entry expired and computed again
C2_Witness ==
    /\ last.stale
    /\ ~last.hit
    /\ last.contacts = 1


(* C3: after any sequence of cached calls and clock advances the           *)
(* article-search cache holds at most 100 entries and the enrichment cache *)
(* at most 500; an unexpired entry leaves a cache in a call only when the  *)
(* cache is full, and then every other unexpired entry was called for     *)
(* more recently than it.                                                  *)
RecencyRank(text) == CHOOSE k \in 1..Len(recency) : recency[k] = text

C3_Capacity ==
    [][/\ Len(news_api_cache') <= 100
       /\ Len(llm_analysis_cache') <= 500
       /\ CallStep =>
            LET cache == SiteCache(last'.req)
                after == SiteCacheAfter(last'.req)
                unexpired == {i \in DOMAIN cache : now < cache[i].expires}
                removed == {cache[i].key : i \in unexpired}
                              \ {after[j].key : j \in DOMAIN after}
            IN \A k \in removed :
                 LET i == CHOOSE i \in unexpired : cache[i].key = k
                     rank == RecencyRank(FillText(cache[i].by))
                     earlier == {recency[n] : n \in 1..(rank - 1)}
                     others == {FillText(cache[j].by) : j \in unexpired \ {i}}
                 IN /\ Cardinality(unexpired) = SiteMaxSize(last'.req)
                    /\ others \cap earlier = {}]_vars

\* the cache was full of unexpired entries, the first call had been
\* repeated, and a call with new arguments pushed out the second call's
\* entry while the first call's entry stayed
C3_Witness ==
    /\ issued > SiteMaxSize(reqs[1])
    /\ Len(SiteCache(reqs[1])) = SiteMaxSize(reqs[1])
    /\ ~last.hit /\ ~last.stale
    /\ \E j \in DOMAIN SiteCache(reqs[1]) :
           FillText(SiteCache(reqs[1])[j].by) = NatToStr(1)
    /\ \A j \in DOMAIN SiteCache(reqs[1]) :
           FillText(SiteCache(reqs[1])[j].by) # NatToStr(2)
    /\ \A j \in DOMAIN SiteCache(reqs[1]) : now < SiteCache(reqs[1])[j].expires


(* C4: make_cache_key gives two parameter mappings the same key exactly    *)
(* when they hold the same key/value pairs, whatever the insertion order;  *)
(* generate_cache_key gives two calls the same key exactly when both the   *)
(* operation name and the text are the same.                               *)
Applied(fn) == pout # <<>> /\ pin.fn = fn

C4_Canonical ==
    /\ Applied("make_cache_key") =>
         ((pout[1] = pout[2]) <=> (DictItems(pin.x) = DictItems(pin.y)))
    /\ Applied("generate_cache_key") =>
         ((pout[1] = pout[2]) <=> (pin.x = pin.y))

\* two mappings of three items in different insertion orders got one key
C4_Witness ==
    /\ Applied("make_cache_key")
    /\ Len(pin.x) = 3
    /\ pin.x # pin.y
    /\ pout[1] = pout[2]

(* C10: transform_for_fetching returns a mapping whose keys are exactly    *)
(* language, plus q iff categories or keywords are non-empty, sources iff  *)
(* sources is non-empty, excludeDomains iff excluded_sources is non-empty. *)
C10_KeySet ==
    Applied("transform_for_fetching") =>
        DictKeys(pout[1]) =
            {"language"}
            \cup (IF Len(pin.x.preferred_categories) > 0 \/ Len(pin.x.keywords) > 0
                  THEN {"q"} ELSE {})
            \cup (IF Len(pin.x.sources) > 0 THEN {"sources"} ELSE {})
            \cup (IF Len(pin.x.excluded_sources) > 0 THEN {"excludeDomains"} ELSE {})


(* C5 as stated: two fetch_articles calls whose normalized parameters      *)
(* (defaults filled in, pageSize clamped, empty values removed) are equal  *)
(* hit the same cache entry, so the second call within the time-to-live    *)
(* does not contact the boundary.                                          *)
C5_NormalizedKey ==
    [][(CallStep /\ IsNews(last'.req)) =>
        \A i \in DOMAIN news_api_cache :
            (/\ now < news_api_cache[i].expires
             /\ params_to_use(news_api_cache[i].by.params)
                    = params_to_use(last'.req.params))
            => last'.contacts = 0]_vars

(* C5 amended: the article cache is keyed by the caller's mapping: a call  *)
(* is answered from the cache exactly when an unexpired entry was stored   *)
(* for a mapping with the same key/value pairs, in whatever order.         *)
C5_RawKey ==
    [][(CallStep /\ IsNews(last'.req)) =>
        (last'.contacts = 0 <=>
            \E i \in DOMAIN news_api_cache :
                /\ now < news_api_cache[i].expires
                /\ DictItems(news_api_cache[i].by.params)
                       = DictItems(last'.req.params))]_vars

\* a call was answered from the entry of a call that gave the same pairs
\* in another order, while the entry of a call that normalizes to the same
\* parameters had not answered it
C5_Witness ==
    /\ IsNews(last.req)
    /\ last.hit
    /\ \E i \in DOMAIN news_api_cache :
          /\ news_api_cache[i].key = RequestKey(last.req)
          /\ news_api_cache[i].by.params # last.req.params
    /\ Len(last.req.params) = 2

(* C6: a call of an enrichment operation is answered from the cache only   *)
(* with an entry that a call with the same text and the same parameter     *)
(* (num_keywords, max_length, category set) stored.                        *)
CategorySet(r) == {r.categories[n] : n \in DOMAIN r.categories}

C6_SeparateConfigurations ==
    [][(CallStep /\ IsLlm(last'.req) /\ last'.hit) =>
        \A i \in DOMAIN llm_analysis_cache :
            llm_analysis_cache[i].key = RequestKey(last'.req) =>
                /\ llm_analysis_cache[i].by.text = last'.req.text
                /\ llm_analysis_cache[i].by.num = last'.req.num
                /\ CategorySet(llm_analysis_cache[i].by) = CategorySet(last'.req)]_vars

(* C7: a call of an enrichment operation is answered from the cache only   *)
(* with an entry that the same operation stored.                           *)
C7_NoCrossOperation ==
    [][(CallStep /\ IsLlm(last'.req) /\ last'.hit) =>
        \A i \in DOMAIN llm_analysis_cache :
            llm_analysis_cache[i].key = RequestKey(last'.req) =>
                llm_analysis_cache[i].by.op = last'.req.op]_vars

\* an operation was answered from the cache while the cache also held the
\* entry of another operation for the same text and the same number
C7_Witness ==
    /\ IsLlm(last.req)
    /\ last.hit
    /\ \E i \in DOMAIN llm_analysis_cache :
          /\ llm_analysis_cache[i].by.op # last.req.op
          /\ llm_analysis_cache[i].by.text = last.req.text
          /\ llm_analysis_cache[i].by.num = last.req.num

C9_SentParameters ==
    (IsNews(last.req) /\ last.contacts = 1) =>
        /\ \A n \in DOMAIN last.sent :
              /\ last.sent[n][1] = "pageSize" => last.sent[n][2].v <= 100
              /\ last.sent[n][2].t = "str" => last.sent[n][2].v # <<>>
              /\ last.sent[n][2].t = "int" => last.sent[n][2].v # 0
        /\ ~HasKey(last.req.params, "pageSize") =>
              \E n \in DOMAIN last.sent : last.sent[n] = <<"pageSize", PyInt(20)>>

\* a caller's pageSize of 200 was sent as 100
C9_Witness ==
    /\ IsNews(last.req)
    /\ last.contacts = 1
    /\ DictGet(last.req.params, "pageSize", PyInt(0)) = PyInt(200)
    /\ \E n \in DOMAIN last.sent : last.sent[n] = <<"pageSize", PyInt(100)>>


TextOrEmpty(field) == IF field.t = "str" THEN Lower(field.v) ELSE <<>>

Haystack(article) ==
    TextOrEmpty(article.title) \o <<" ">> \o TextOrEmpty(article.description)
        \o <<" ">> \o TextOrEmpty(article.content)

Occurs(keyword, text) ==
    \E from \in 0..Len(text), to \in 0..Len(text) :
        from <= to /\ SubSeq(text, from + 1, to) = Lower(keyword)

SourceName(article) ==
    IF article.source.t = "dict" THEN TextOrEmpty(article.source.v.name) ELSE <<>>

\* the score in halves
StatedScore(article, preferences) ==
    2 * Cardinality({n \in DOMAIN preferences.keywords :
                        Occurs(preferences.keywords[n], Haystack(article))})
    + (IF /\ article.category.t = "str"
          /\ \E n \in DOMAIN preferences.preferred_categories :
                preferences.preferred_categories[n] = article.category.v
       THEN 4 ELSE 0)
    + (IF \E n \in DOMAIN preferences.sources :
             Lower(preferences.sources[n]) = SourceName(article)
       THEN 1 ELSE 0)

C12_ScoreFormula ==
    Applied("score_article") =>
        /\ pout[1] = PyFloat(StatedScore(pin.x.article, pin.x.preferences))
        /\ pout[1].v >= 0
        /\ pout[1].v <= 2 * Len(pin.x.preferences.keywords) + 5

\* C12 for the articles that score_article returns a score for
C12_ScoreWhenReturned ==
    (Applied("score_article") /\ pout[1].t = "float") =>
        /\ pout[1] = PyFloat(StatedScore(pin.x.article, pin.x.preferences))
        /\ pout[1].v >= 0
        /\ pout[1].v <= 2 * Len(pin.x.preferences.keywords) + 5

(* C13: score_article returns a score for every article, also when title,  *)
(* description, content, source or source.name is absent or null.          *)
C13_Total ==
    Applied("score_article") => pout[1].t = "float"

(* C14: rank_articles returns the input articles, each with its score as   *)
(* relevance_score, in an order of non-increasing scores in which articles *)
(* of equal score keep the order of the input; the empty list stays empty. *)
InputPosition(url) ==
    CHOOSE n \in DOMAIN pin.x.articles : pin.x.articles[n].url = url

IsRanking(out) ==
    /\ Len(out) = Len(pin.x.articles)
    /\ \A n \in DOMAIN pin.x.articles :
          \E m \in DOMAIN out :
              out[m] = [pin.x.articles[n] EXCEPT
                          !.relevance_score =
                              PyFloat(StatedScore(pin.x.articles[n],
                                                  pin.x.preferences))]
    /\ \A m \in DOMAIN out : \A k \in DOMAIN out :
          m < k =>
            /\ out[m].relevance_score.v >= out[k].relevance_score.v
            /\ out[m].relevance_score.v = out[k].relevance_score.v =>
                  InputPosition(out[m].url) < InputPosition(out[k].url)

C14_Ranking ==
    Applied("rank_articles") => (pout[1].t = "list" /\ IsRanking(pout[1].v))

\* C14 for the lists that rank_articles returns a list for
C14_RankingWhenReturned ==
    (Applied("rank_articles") /\ pout[1].t = "list") => IsRanking(pout[1].v)

(* C15: for n >= 0 generate_recommendations returns exactly the first      *)
(* min(n, length of the input) elements of rank_articles' output, in that  *)
(* order, and nothing when rank_articles has no output; n = 0 yields the   *)
(* empty list.                                                             *)
C15_TopN ==
    (Applied("generate_recommendations") /\ pin.x.num_recommendations >= 0) =>
        LET ranked == rank_articles(pin.x.articles, pin.x.preferences)
            n == pin.x.num_recommendations
            count == IF n < Len(pin.x.articles) THEN n ELSE Len(pin.x.articles)
        IN IF ranked.t = "list"
           THEN /\ pout[1].t = "list"
                /\ Len(pout[1].v) = count
                /\ \A m \in 1..count : pout[1].v[m] = ranked.v[m]
           ELSE pout[1].t = "raise"

\* two of three ranked articles were asked for and returned
C15_Witness ==
    /\ Applied("generate_recommendations")
    /\ pin.x.num_recommendations = 2
    /\ Len(pin.x.articles) = 3
    /\ pout[1].t = "list"
    /\ Len(pout[1].v) = 2
    /\ pout[1].v[1].relevance_score.v > pout[1].v[2].relevance_score.v

(* C16: generate_recommendations called with a negative count raises and   *)
(* never returns a list of articles.                                       *)
C16_NegativeCountRaises ==
    (Applied("generate_recommendations") /\ pin.x.num_recommendations < 0) =>
        pout[1].t = "raise"


\* the provider's text without the blanks around it, in lowercase; the
\* labels of a sentiment
Trimmed(outcome) == Lower(Strip(outcome.content))

SentimentLabels ==
    {<<"p", "o", "s", "i", "t", "i", "v", "e">>,
     <<"n", "e", "g", "a", "t", "i", "v", "e">>,
     <<"n", "e", "u", "t", "r", "a", "l">>}

(* C17: analyze_sentiment returns one of the lowercase labels positive,    *)
(* negative, neutral, exactly when the trimmed response is one of them     *)
(* ignoring case, and otherwise (other text, empty text, provider error,   *)
(* no client) the absent result, never a default label.                    *)
C17_Sentiment ==
    Applied("analyze_sentiment") =>
        IF /\ pin.x.req.client_ok
           /\ pin.x.outcome.kind = "text"
           /\ Trimmed(pin.x.outcome) \in SentimentLabels
        THEN pout[1] = PyStr(Trimmed(pin.x.outcome))
        ELSE pout[1] = PyNone

\* both sides: "NEGATIVE" became negative, "mostly okay" became absent
C17_Witness ==
    /\ Applied("analyze_sentiment")
    /\ pin.x.req.client_ok
    /\ pin.x.outcome.content = <<"N", "E", "G", "A", "T", "I", "V", "E">>
    /\ pout[1] = PyStr(<<"n", "e", "g", "a", "t", "i", "v", "e">>)

(* C18: categorize_article returns the lowercased response, exactly when   *)
(* the response equals a member of the caller's category set ignoring      *)
(* case, and otherwise the absent result: a response outside the set, a    *)
(* near miss included, is rejected.                                        *)
C18_Category ==
    Applied("categorize_article") =>
        IF /\ pin.x.req.client_ok
           /\ pin.x.outcome.kind = "text"
           /\ \E n \in DOMAIN pin.x.req.categories :
                 Lower(pin.x.req.categories[n]) = Trimmed(pin.x.outcome)
        THEN pout[1] = PyStr(Trimmed(pin.x.outcome))
        ELSE pout[1] = PyNone

\* "ai" was accepted for the caller's set [world, AI], where the default
\* set does not hold it
C18_Witness ==
    /\ Applied("categorize_article")
    /\ pin.x.req.client_ok
    /\ pin.x.req.categories # DefaultCategories
    /\ pin.x.outcome.content = <<"a", "i">>
    /\ pout[1] = PyStr(<<"a", "i">>)

(* C19: generate_summary returns a non-empty string or the absent result;  *)
(* an empty or blank response and a provider failure give the absent       *)
(* result, never an empty string.                                          *)
C19_Summary ==
    Applied("generate_summary") =>
        \/ pout[1] = PyNone
        \/ pout[1].t = "str" /\ Len(pout[1].v) > 0

(* C20: with a client, extract_keywords returns the response split on      *)
(* commas, each item trimmed, empty items dropped, in order; an empty or   *)
(* blank response, a response without items and a provider failure give    *)
(* the empty list.                                                         *)
C20_Keywords ==
    (Applied("extract_keywords") /\ pin.x.req.client_ok) =>
        /\ pout[1].t = "list"
        /\ pin.x.outcome.kind # "text" => pout[1].v = <<>>
        /\ pin.x.outcome.kind = "text" =>
              LET parts == Split(pin.x.outcome.content, ",") IN
              pout[1].v = SelectSeq([n \in DOMAIN parts |-> Strip(parts[n])],
                                    LAMBDA item : item # <<>>)
        /\ pin.x.outcome.content = <<"a", "i", ",", " ", "m", "l", ",", ",", "x", " ">>
              => pout[1].v = <<<<"a", "i">>, <<"m", "l">>, <<"x">>>>
        /\ pin.x.outcome.content \in {<<>>, <<" ", " ">>, <<",", " ", ",">>}
              => pout[1].v = <<>>

\* "ai, ml,,x " gave three keywords
C20_Witness ==
    /\ Applied("extract_keywords")
    /\ pin.x.req.client_ok
    /\ pout[1] = PyList(<<<<"a", "i">>, <<"m", "l">>, <<"x">>>>)

----------------------------------------------------------------------------
(* The recommendation request and the preference store *)

IsRecommendation == response.op = "get_recommendations"

\* the request got a list from the search, fresh or cached
GotList == IsRecommendation /\ response.fetched.t = "list"

EnrichmentFields(article) ==
    <<article.summary, article.keywords, article.sentiment, article.category>>

C22_NothingFound ==
    (IsRecommendation /\ response.fetch_calls = 1 /\ response.fetched = PyNone) =>
        /\ HasKey(user_preferences_db, response.user_id)
        /\ response.status_code = 200
        /\ response.recommendations = <<>>
        /\ response.enrich_calls = 0
        /\ response.llm_contacts = 0
        /\ response.rank_calls = 0

C22_Witness ==
    /\ IsRecommendation
    /\ response.fetch_calls = 1
    /\ response.fetch_contacts = 1
    /\ response.fetched = PyNone
    /\ settings.OPENAI_API_KEY


\* the values an analyzer method can have returned for a text: what it
\* makes of a well-formed answer, and what it makes of a provider error
MethodValues(op, text) ==
    {LlmResult(DefaultCall(op, text, TRUE), ApiLlmOutcome(op, fails)) :
        fails \in {{}, {op}}}

\* the value the enrichment cache holds for a method and a text
StoredValue(op, text) ==
    llm_analysis_cache[IndexOf(llm_analysis_cache,
                               RequestKey(DefaultCall(op, text, TRUE)))].value

\* the article handed to the engine is the fetched one with its four
\* enrichment fields set to what the four calls returned, a failed one
\* being None or empty
IsEnrichmentOf(analyzed, article) ==
    LET text == text_content(article).v IN
    /\ [analyzed EXCEPT !.summary = PyAbsent, !.keywords = PyAbsent,
                        !.sentiment = PyAbsent, !.category = PyAbsent]
         = [article EXCEPT !.summary = PyAbsent, !.keywords = PyAbsent,
                           !.sentiment = PyAbsent, !.category = PyAbsent]
    /\ \A k \in 1..4 :
          LET value == EnrichmentFields(analyzed)[k] IN
          /\ value \in MethodValues(EnrichOps[k], text)
          /\ value = StoredValue(EnrichOps[k], text)
          /\ value # LlmResult(DefaultCall(EnrichOps[k], text, TRUE),
                               ApiLlmOutcome(EnrichOps[k], {}))
                => ~Truthy(value)

\* what C23 says of a request that got a list and has a client
PartiallyEnriched ==
    /\ response.rank_calls = 1
    /\ Len(response.articles_to_rank) = Len(response.fetched.v)
    /\ \A n \in DOMAIN response.fetched.v :
          IF Truthy(text_content(response.fetched.v[n]))
          THEN IsEnrichmentOf(response.articles_to_rank[n], response.fetched.v[n])
          ELSE response.articles_to_rank[n] = response.fetched.v[n]

\* C23: with a client, whatever list was fetched and whichever analyzer
\* calls failed, the engine is handed one entry per fetched article in the
\* fetched order: an article with text as a copy carrying the value of each
\* call that succeeded and None or empty for each that failed, an article
\* without text as it was fetched.
C23_PartialEnrichment ==
    (GotList /\ settings.OPENAI_API_KEY) => PartiallyEnriched

\* the same for the lists in which no article has a null title
C23_WhenTitled ==
    (GotList /\ settings.OPENAI_API_KEY
        /\ \A n \in DOMAIN response.fetched.v :
               response.fetched.v[n].title # PyNone)
      => PartiallyEnriched

\* a list with articles with and without text, some calls having failed
C23_Witness ==
    /\ GotList
    /\ settings.OPENAI_API_KEY
    /\ Len(response.articles_to_rank) = 3
    /\ response.articles_to_rank[1].summary = PyNone
    /\ response.articles_to_rank[1].sentiment # PyNone
    /\ response.articles_to_rank[2].summary = PyAbsent
    /\ response.articles_to_rank[3].keywords = PyList(<<>>)


\* C24: a recommendation request whose search is answered from the cache
\* gets the article records as the boundary delivered them when the entry
\* was stored, whatever requests and ranking runs came in between.
C24_AsReceived ==
    (IsRecommendation /\ response.fetch_hit) => response.fetched = response.received

\* with a client, the articles with text, which are ranked as copies, are
\* returned as received
C24_CopiesLeaveCache ==
    (IsRecommendation /\ response.fetch_hit /\ settings.OPENAI_API_KEY
        /\ response.fetched.t = "list")
      => \A n \in DOMAIN response.fetched.v :
             Truthy(text_content(response.fetched.v[n]))
                => response.fetched.v[n] = response.received.v[n]


\* the entry of a user in a store, None when there is none
EntryOf(db, user_id) ==
    IF HasKey(db, user_id)
    THEN [t |-> "dict", v |-> DictGet(db, user_id, NoResponse.preferences)]
    ELSE [t |-> "none", v |-> NoResponse.preferences]

\* a handler has run in this step
HandlerStep == response'.served = response.served + 1

\* C25: the store starts empty; a submission makes the submitted record the
\* entry of its user and leaves every other user's entry as it was; no
\* other step changes the store, neither a recommendation request nor the
\* passing of time; and a recommendation request for a user without an
\* entry answers 404 and neither calls fetch_articles nor touches the
\* article cache.
C25_Store ==
    [][/\ IF HandlerStep /\ response'.op = "receive_preferences"
          THEN /\ EntryOf(user_preferences_db', response'.user_id)
                    = [t |-> "dict", v |-> response'.preferences]
               /\ \A other \in UserIds \ {response'.user_id} :
                      EntryOf(user_preferences_db', other)
                        = EntryOf(user_preferences_db, other)
          ELSE user_preferences_db' = user_preferences_db
       /\ (HandlerStep /\ response'.op = "get_recommendations"
              /\ ~HasKey(user_preferences_db, response'.user_id))
            => /\ response'.status_code = 404
               /\ response'.fetch_calls = 0
               /\ response'.fetch_contacts = 0
               /\ news_api_cache' = news_api_cache]_vars

\* the store is empty before the first request
C25_StartsEmpty == response.served = 0 => user_preferences_db = <<>>

\* a second submission of the first user, made when another user has an
\* entry, has replaced the first, and the entries outlive both caches'
\* times-to-live
C25_Witness ==
    /\ Len(user_preferences_db) = 2
    /\ response.op = "receive_preferences"
    /\ response.served = 3
    /\ response.user_id = user_preferences_db[1][1]
    /\ response.preferences = user_preferences_db[1][2]
    /\ response.preferences # user_preferences_db[2][2]
    /\ now >= LlmCacheTtl


----------------------------------------------------------------------------
(* Concurrent cached calls *)

\* every caller that has returned holds a value its own search produces
OwnValues ==
    \A i \in DOMAIN callers :
        callers[i].pc = "returned" => callers[i].value \in RaceResults(callers[i].req)

\* C26: however the steps of concurrent cached calls interleave, no key
\* has two entries in the cache, the cache never holds more entries than
\* its capacity, and every caller gets a value produced for its own key.
C26_Guarded ==
    /\ \A i, j \in DOMAIN news_api_cache :
          i # j => news_api_cache[i].key # news_api_cache[j].key
    /\ Len(news_api_cache) <= NewsCacheMaxSize
    /\ OwnValues

\* the part that holds without a lock: the value a caller gets
C26_OwnValues == OwnValues

\* the capacity alone
C26_WithinCapacity == Len(news_api_cache) <= NewsCacheMaxSize


----------------------------------------------------------------------------
(* Purity, memoised failures, shared entries, case folding *)

C28_FailureMemoised ==
    [][CallStep =>
        LET r == last'.req
            cache == SiteCache(r)
            ttl == StatedTtl(r)
            memoised == /\ last'.hit
                        /\ last'.result = PyNone
                        /\ last'.contacts = 0
        IN /\ (/\ last.contacts = 1
               /\ last.outcome \in FailureKinds \cup LlmFailureKinds
               /\ last.result = PyNone
               /\ SameArguments(last.req, r))
              => LET i == IndexOf(cache, RequestKey(last.req)) IN
                 /\ i # 0
                 /\ cache[i].value = PyNone
                 /\ cache[i].by = last.req
                 /\ now - (cache[i].expires - ttl) < ttl => memoised
           /\ \A i \in LiveEntriesOf(r) :
                 cache[i].value = PyNone => memoised]_vars

\* a search that failed is answered from the cache one second before its
\* entry expires
C28_Witness ==
    /\ IsNews(last.req)
    /\ last.hit
    /\ last.result = PyNone
    /\ last.contacts = 0
    /\ now = NewsCacheTtl - 1

\* the same for an enrichment call
C28_WitnessEnrichment ==
    /\ IsLlm(last.req)
    /\ last.req.client_ok
    /\ last.hit
    /\ last.result = PyNone
    /\ last.contacts = 0
    /\ now = LlmCacheTtl - 1


\* C29: the key of an enrichment call is the same on every analyzer
\* instance: a call finds the live entry that a call with its method, text
\* and parameter stored on an instance of the other client availability,
\* and returns that entry's value without contacting the provider.
C29_SharedAcrossInstances ==
    [][(CallStep /\ IsLlm(last'.req)) =>
        LET r == last'.req IN
        \A i \in LiveEntriesOf(r) :
            llm_analysis_cache[i].by.client_ok # r.client_ok =>
                /\ llm_analysis_cache[i].key = RequestKey(r)
                /\ last'.hit
                /\ last'.result = llm_analysis_cache[i].value
                /\ last'.contacts = 0]_vars

\* an instance with a client is handed the None that an instance without
\* one stored
C29_Witness ==
    /\ IsLlm(last.req)
    /\ last.req.client_ok
    /\ last.hit
    /\ last.result = PyNone
    /\ \E i \in 1..Len(llm_analysis_cache) :
          /\ llm_analysis_cache[i].key = RequestKey(last.req)
          /\ ~llm_analysis_cache[i].by.client_ok

\* an instance without a client is handed what the provider answered to
\* another instance
C29_WitnessAnswer ==
    /\ IsLlm(last.req)
    /\ ~last.req.client_ok
    /\ last.hit
    /\ last.result # PyNone
    /\ \E i \in 1..Len(llm_analysis_cache) :
          /\ llm_analysis_cache[i].key = RequestKey(last.req)
          /\ llm_analysis_cache[i].by.client_ok


\* the parts of a returned score, in halves: the source part is the odd
\* half, the keyword part is 1.0 for each keyword that occurs, the category
\* part is the rest
SourcePart == pout[1].v % 2

KeywordPart ==
    2 * Cardinality({n \in DOMAIN pin.x.preferences.keywords :
                        Occurs(pin.x.preferences.keywords[n],
                               Haystack(pin.x.article))})

CategoryPart == pout[1].v - SourcePart - KeywordPart

\* C30: where score_article returns a score, the category adds 2.0 exactly
\* when it is a non-empty string equal, character for character, to one of
\* the preferred categories, so that a category and a preference that
\* differ in case only add nothing; the source adds 0.5 exactly when the
\* lowercased source name equals the lowercase of one of the preference
\* sources.
C30_CaseFolding ==
    (Applied("score_article") /\ pout[1].t = "float") =>
        LET article == pin.x.article
            preferences == pin.x.preferences
        IN /\ CategoryPart \in {0, 4}
           /\ CategoryPart = 4 <=>
                 /\ article.category.t = "str"
                 /\ article.category.v # <<>>
                 /\ \E n \in DOMAIN preferences.preferred_categories :
                       preferences.preferred_categories[n] = article.category.v
           /\ SourcePart = 1 <=>
                 \E n \in DOMAIN preferences.sources :
                     Lower(preferences.sources[n]) = Lower(SourceName(article))

\* the category "technology" gets nothing from the preference "Technology",
\* the source "BBC" gets 0.5 from the preference "bbc"
C30_Witness ==
    /\ Applied("score_article")
    /\ pout[1].t = "float"
    /\ pin.x.article.category = PyStr(TxtTechnology)
    /\ pin.x.preferences.preferred_categories =
          <<<<"T", "e", "c", "h", "n", "o", "l", "o", "g", "y">>>>
    /\ pin.x.article.source = PyDict([name |-> PyStr(TxtBbcName)])
    /\ pin.x.preferences.sources = <<TxtBbc>>
    /\ CategoryPart = 0
    /\ SourcePart = 1

\* the category matches a preference of its own case, the source a
\* preference of another case
C30_WitnessBoth ==
    /\ Applied("score_article")
    /\ pout[1].t = "float"
    /\ pin.x.article.category = PyStr(TxtTechnology)
    /\ pin.x.preferences.preferred_categories = <<TxtSports, TxtTechnology>>
    /\ pin.x.article.source = PyDict([name |-> PyStr(TxtCnn)])
    /\ pin.x.preferences.sources = <<<<"C", "n", "n">>, TxtBbcName>>
    /\ CategoryPart = 4
    /\ SourcePart = 1


====
